---------------------------- MODULE Spec2Model ----------------------------
(***************************************************************************)
(* A model of the EM Toolkit presentation layer (React components under    *)
(* src/web/src and src/unnamed) and of the engine calls it makes.          *)
(*                                                                         *)
(* App mounts one module component at a time, so every specification below *)
(* describes one mounted component: its hook state (useState), the values  *)
(* its useMemo blocks compute from that state, and what it renders.  Each  *)
(* component is one variable holding a record whose fields carry the names *)
(* used in the source; a component that is not mounted is Unmounted.       *)
(*                                                                         *)
(* Numbers.  JavaScript numbers are modelled as exact values:              *)
(*   - a rational is a record [n, d] in lowest terms with d > 0;           *)
(*   - a non-negative real obtained through Math.sqrt is a Root record     *)
(*     [sq |-> r], holding the rational r whose square root it is;         *)
(*   - the non-finite values are Infinity and NaN, and a missing value is  *)
(*     null or undefined, as in JavaScript.                                *)
(* Floating-point rounding is outside the model.                           *)
(***************************************************************************)
EXTENDS Integers, Sequences, FiniteSets, Bags, TLC

VARIABLES
    WaveguideModesModule,
    SnellModule,
    FresnelModule,
    MediumPropertiesModule,
    SkinDepthModule,
    LorentzForceModule,
    VectorOpsModule,
    PowerModule,
    BarcodeBrief,
    ResonanceModule,
    ImpedanceModule,
    SolarCellBrief,
    HelmholtzModule,
    TLineTransientModule,
    RCCircuitModule,
    wasm,
    App,
    MicrostripModule,
    ElectrostaticsModule

vars == << WaveguideModesModule, SnellModule, FresnelModule,
           MediumPropertiesModule, SkinDepthModule,
           LorentzForceModule, VectorOpsModule,
           PowerModule,
           BarcodeBrief,
           ResonanceModule,
           ImpedanceModule,
           SolarCellBrief,
           HelmholtzModule,
           TLineTransientModule,
           RCCircuitModule,
           wasm,
           App,
           MicrostripModule,
           ElectrostaticsModule >>

\* Values of different shapes are compared, so each special value is a record.
Unmounted == [mounted |-> FALSE]
Infinity == [kind |-> "Infinity"]
NaN == [kind |-> "NaN"]
null == [kind |-> "null"]
undefined == [kind |-> "undefined"]

---------------------------------------------------------------------------
(* Exact arithmetic                                                        *)

Abs(x) == IF x < 0 THEN -x ELSE x

\* Euclid's algorithm; each remainder is bound to its value before the next
\* round, so that no round evaluates the remainders of the rounds before it.
RECURSIVE GCD(_, _)
GCD(x, y) ==
    IF y = 0 THEN x ELSE CHOOSE g \in {GCD(b, r) : b \in {y}, r \in {x % y}} : TRUE

\* The rational n/d (d # 0) in lowest terms with a positive denominator.
Rat(n, d) ==
    LET g == GCD(Abs(n), Abs(d))
        s == IF d < 0 THEN -1 ELSE 1
    IN  [n |-> s * (n \div g), d |-> s * (d \div g)]

IsRat(x) == DOMAIN x = {"n", "d"}

RZero == [n |-> 0, d |-> 1]
ROne == [n |-> 1, d |-> 1]

\* sums and differences over the least common denominator
RAdd(x, y) ==
    LET g == GCD(x.d, y.d)
    IN  Rat(x.n * (y.d \div g) + y.n * (x.d \div g), (x.d \div g) * y.d)
RSub(x, y) ==
    LET g == GCD(x.d, y.d)
    IN  Rat(x.n * (y.d \div g) - y.n * (x.d \div g), (x.d \div g) * y.d)
RMul(x, y) ==
    LET g1 == GCD(Abs(x.n), y.d)
        g2 == GCD(Abs(y.n), x.d)
    IN  Rat((x.n \div g1) * (y.n \div g2), (x.d \div g2) * (y.d \div g1))
\* x / y for y # 0
RDiv(x, y) == RMul(x, Rat(y.d, y.n))
RLt(x, y) == x.n * y.d < y.n * x.d
RLe(x, y) == x.n * y.d <= y.n * x.d

\* Math.sqrt of a rational: NaN below zero, otherwise the root of x.
MathSqrt(x) == IF x.n < 0 THEN NaN ELSE [sq |-> x]
\* A non-negative rational seen as a root.
RootOf(x) == [sq |-> RMul(x, x)]
RootLt(x, y) == RLt(x.sq, y.sq)
RootLe(x, y) == RLe(x.sq, y.sq)
RootMul(x, y) == [sq |-> RMul(x.sq, y.sq)]
\* x / y in JavaScript: a zero divisor gives NaN (0/0) or Infinity.
RootDiv(x, y) ==
    IF y.sq.n = 0
    THEN IF x.sq.n = 0 THEN NaN ELSE Infinity
    ELSE [sq |-> RDiv(x.sq, y.sq)]
\* x * x
RootSquare(x) == x.sq
\* x - y of two values that are kept as they are: the difference of two
\* square roots has no closed form in the representation.
Minus(x, y) == [minuend |-> x, subtrahend |-> y]

---------------------------------------------------------------------------
(* WaveguideModesModule (src/web/src/modules/WaveguideModesModule.tsx)     *)
(*                                                                         *)
(* The component's state holds a and b in millimetres and the frequency in *)
(* hertz.  Here a and b are whole micrometres (22.86 mm is 22860; the      *)
(* presets have up to three decimals) and frequency is in units of 100 MHz *)
(* (the slider's step: 10e9 Hz is 100).  Everything computed from them is  *)
(* in SI units, as in the source: InMetres and InHertz convert, cutoffs are in *)
(* hertz, velocities in metres per second, wavelengths in metres.          *)
(*                                                                         *)
(* c squared and the squared dimensions do not fit a machine integer, so   *)
(* the section computes on naturals of any size: a Big is the sequence of  *)
(* the base-10000 digits of a natural, lowest digit first, without leading *)
(* zero digits (zero is the empty sequence).  A fraction [n, d] of two     *)
(* Bigs is not reduced; a root is [sq |-> fraction] as before.             *)

RECURSIVE Big(_)
Big(k) == IF k = 0 THEN << >> ELSE <<k % 10000>> \o Big(k \div 10000)

\* digits[i..] with the carry taken along
RECURSIVE BigCarry(_, _, _)
BigCarry(digits, i, carry) ==
    IF i > Len(digits) THEN Big(carry)
    ELSE <<(digits[i] + carry) % 10000>>
             \o BigCarry(digits, i + 1, (digits[i] + carry) \div 10000)

\* The sum of the values of a function of naturals: the bag that holds
\* f[i] + 1 copies of each i has the sum plus one for each i as its size.
BigSum(f) == BagCardinality([i \in DOMAIN f |-> f[i] + 1]) - Cardinality(DOMAIN f)

\* digit k of x * y before the carries: the sum of x[i] * y[k + 1 - i]
BigDot(x, y, k) ==
    BigSum([i \in (IF k > Len(y) THEN k + 1 - Len(y) ELSE 1)..(IF k < Len(x) THEN k ELSE Len(x)) |->
               x[i] * y[k + 1 - i]])

BigTimes(x, y) ==
    CHOOSE r \in
        { IF u = << >> \/ v = << >> THEN << >>
          ELSE IF v = <<1>> THEN u
          ELSE IF u = <<1>> THEN v
          ELSE IF Len(v) = 1 THEN BigCarry([k \in 1..Len(u) |-> u[k] * v[1]] \o << >>, 1, 0)
          ELSE IF Len(u) = 1 THEN BigCarry([k \in 1..Len(v) |-> u[1] * v[k]] \o << >>, 1, 0)
          ELSE CHOOSE p \in
                   { BigCarry(raw, 1, 0) :
                       raw \in {[k \in 1..(Len(u) + Len(v) - 1) |->
                                   BigDot(u, v, k)]
                                   \o << >>} } :
                   TRUE : u \in {x}, v \in {y} } : TRUE

BigPlus(x, y) ==
    CHOOSE r \in
        { CHOOSE p \in
              { BigCarry(raw, 1, 0) :
                  raw \in {[k \in 1..(IF Len(u) > Len(v) THEN Len(u) ELSE Len(v)) |->
                              (IF k <= Len(u) THEN u[k] ELSE 0)
                                  + (IF k <= Len(v) THEN v[k] ELSE 0)] \o << >>} } : TRUE :
            u \in {x}, v \in {y} } : TRUE

\* the digits of x - y from digit i on, for x >= y
RECURSIVE BigBorrow(_, _, _, _)
BigBorrow(x, y, i, borrow) ==
    IF i > Len(x) THEN << >>
    ELSE LET t == x[i] - (IF i <= Len(y) THEN y[i] ELSE 0) - borrow
         IN  <<IF t < 0 THEN t + 10000 ELSE t>>
                 \o BigBorrow(x, y, i + 1, IF t < 0 THEN 1 ELSE 0)

\* without the leading zero digits
BigStrip(digits) ==
    CHOOSE r \in
        { IF \A i \in 1..Len(s) : s[i] = 0 THEN << >>
          ELSE SubSeq(s, 1, CHOOSE i \in 1..Len(s) :
                                /\ s[i] # 0
                                /\ \A j \in (i + 1)..Len(s) : s[j] = 0) : s \in {digits} } : TRUE

\* x - y for x >= y
BigMinus(x, y) ==
    CHOOSE r \in { BigStrip(BigBorrow(u, v, 1, 0)) : u \in {x}, v \in {y} } : TRUE

BigLess(x, y) ==
    CHOOSE r \in
        { IF Len(u) # Len(v) THEN Len(u) < Len(v)
          ELSE \E i \in 1..Len(u) :
                  /\ u[i] < v[i]
                  /\ \A j \in (i + 1)..Len(u) : u[j] = v[j] : u \in {x}, v \in {y} } : TRUE

\* The fraction n/d of two Bigs (d # 0), and the whole number k.
BigRat(n, d) == [n |-> n, d |-> d]
BigWhole(k) == BigRat(Big(k), <<1>>)
BigRatTimes(x, y) ==
    CHOOSE r \in { BigRat(BigTimes(u.n, v.n), BigTimes(u.d, v.d)) : u \in {x}, v \in {y} } : TRUE
\* x / y for y # 0
BigRatDivide(x, y) ==
    CHOOSE r \in { BigRat(BigTimes(u.n, v.d), BigTimes(u.d, v.n)) : u \in {x}, v \in {y} } : TRUE
BigRatPlus(x, y) ==
    CHOOSE r \in { BigRat(BigPlus(BigTimes(u.n, v.d), BigTimes(v.n, u.d)), BigTimes(u.d, v.d)) :
                     u \in {x}, v \in {y} } : TRUE
\* x - y for x >= y
BigRatMinus(x, y) ==
    CHOOSE r \in { BigRat(BigMinus(BigTimes(u.n, v.d), BigTimes(v.n, u.d)), BigTimes(u.d, v.d)) :
                     u \in {x}, v \in {y} } : TRUE
BigRatLess(x, y) ==
    CHOOSE r \in { IF u.d = v.d THEN BigLess(u.n, v.n)
                   ELSE BigLess(BigTimes(u.n, v.d), BigTimes(v.n, u.d)) :
                     u \in {x}, v \in {y} } : TRUE
BigRatEqual(x, y) ==
    CHOOSE r \in { BigTimes(u.n, v.d) = BigTimes(v.n, u.d) : u \in {x}, v \in {y} } : TRUE

\* Roots of fractions: Math.sqrt, a fraction seen as a root, and the
\* operations of the section on roots.
BigSqrt(x) == [sq |-> x]
BigRootOf(x) == [sq |-> BigRatTimes(x, x)]
BigRootLess(x, y) == BigRatLess(x.sq, y.sq)
BigRootEqual(x, y) == BigRatEqual(x.sq, y.sq)
BigRootAtMost(x, y) == ~BigRatLess(y.sq, x.sq)
BigRootTimes(x, y) == [sq |-> BigRatTimes(x.sq, y.sq)]
\* x / y for y # 0
BigRootDivide(x, y) == [sq |-> BigRatDivide(x.sq, y.sq)]

\* IEEE 754 doubles, as far as the program's comparisons need them.  A
\* positive double is [m, e] with m a Big, 2^52 <= m < 2^53, and stands for
\* m * 2^e; zero has the empty mantissa.  Every operation gives the double
\* nearest to the exact result, ties going to the even mantissa.

\* (2^30)^0 .. (2^30)^7
PowersOfTwoToThe30 ==
    LET p1 == Big(2^30)
        p2 == BigTimes(p1, p1)
        p4 == BigTimes(p2, p2)
    IN  << <<1>>, p1, p2, BigTimes(p2, p1), p4, BigTimes(p4, p1), BigTimes(p4, p2),
           BigTimes(p4, BigTimes(p2, p1)) >>
\* 2^0 .. 2^239
PowersOfTwo ==
    [k \in 1..240 |->
        BigTimes(PowersOfTwoToThe30[(k - 1) \div 30 + 1], Big(2^((k - 1) % 30)))] \o << >>
TwoTo(k) == PowersOfTwo[k + 1]
\* x * 2^k, x itself for k <= 0
BigShift(x, k) == IF k > 0 THEN BigTimes(x, TwoTo(k)) ELSE x

\* the least k in lo..hi with x < 2^k
RECURSIVE BigBitsBetween(_, _, _)
BigBitsBetween(x, lo, hi) ==
    IF lo = hi THEN lo
    ELSE CHOOSE bits \in
             { IF BigLess(x, TwoTo(mid)) THEN BigBitsBetween(x, l, mid)
               ELSE BigBitsBetween(x, mid + 1, h) :
                 mid \in {(lo + hi) \div 2}, l \in {lo}, h \in {hi} } : TRUE
\* the number of binary digits of x # 0: x has Len(x) digits of base 10000
BigBits(x) ==
    CHOOSE bits \in
        { BigBitsBetween(u, 13 * (Len(u) - 1), 14 * Len(u)) : u \in {x} } : TRUE

\* the largest d in lo..hi with d * y <= x, given that lo * y <= x
RECURSIVE BigDigitBetween(_, _, _, _)
BigDigitBetween(x, y, lo, hi) ==
    IF lo = hi THEN lo
    ELSE CHOOSE digit \in
             { IF BigLess(x, BigTimes(y, <<mid>>)) THEN BigDigitBetween(x, y, l, mid - 1)
               ELSE BigDigitBetween(x, y, mid, h) :
                 mid \in {(lo + hi + 1) \div 2}, l \in {lo}, h \in {hi} } : TRUE

\* One digit of the long division: rem has been reduced by d times the
\* shifted divisor, d being digit j + 1 of the quotient.
BigDivideDigit(rem, shifted, d) ==
    IF d = 0 THEN rem ELSE BigMinus(rem, BigTimes(shifted, <<d>>))
\* Long division: the digits of the quotient from digit j + 1 down, rem
\* being what is left of the dividend.
RECURSIVE BigDivideFrom(_, _, _, _)
BigDivideFrom(rem, y, j, quotient) ==
    IF j < 0 THEN [q |-> BigStrip(quotient), r |-> rem]
    ELSE CHOOSE res \in
             { CHOOSE step \in
                   { CHOOSE rest \in
                         { BigDivideFrom(left, y, j - 1, digits) :
                             left \in {BigDivideDigit(r, shifted, d)},
                             digits \in {<<d>> \o quotient} } : TRUE :
                       d \in {BigDigitBetween(r, shifted, 0, 9999)} } : TRUE :
                 shifted \in {[i \in 1..j |-> 0] \o y}, r \in {rem} } : TRUE
\* x \div y and x % y, for y # 0
BigDivide(x, y) ==
    CHOOSE res \in { BigDivideFrom(u, v, Len(u) - Len(v), << >>) : u \in {x}, v \in {y} } : TRUE

\* the largest d in lo..hi with (s + d * 10000^j)^2 <= x
RECURSIVE BigRootDigitBetween(_, _, _, _, _)
BigRootDigitBetween(x, s, j, lo, hi) ==
    IF lo = hi THEN lo
    ELSE CHOOSE digit \in
             { CHOOSE half \in
                   { IF BigLess(x, BigTimes(t, t))
                     THEN BigRootDigitBetween(x, s, j, l, mid - 1)
                     ELSE BigRootDigitBetween(x, s, j, mid, h) :
                       t \in {BigPlus(s, [i \in 1..j |-> 0] \o <<mid>>)} } : TRUE :
                 mid \in {(lo + hi + 1) \div 2}, l \in {lo}, h \in {hi} } : TRUE
RECURSIVE BigFloorSqrtFrom(_, _, _)
BigFloorSqrtFrom(x, s, j) ==
    IF j < 0 THEN s
    ELSE CHOOSE res \in
             { CHOOSE rest \in
                   { BigFloorSqrtFrom(x, next, j - 1) :
                       next \in {IF d = 0 THEN s ELSE BigPlus(s, [i \in 1..j |-> 0] \o <<d>>)} } : TRUE :
                 d \in {BigRootDigitBetween(x, s, j, 0, 9999)} } : TRUE
\* the whole part of the square root of x
BigFloorSqrt(x) ==
    CHOOSE res \in { BigFloorSqrtFrom(u, << >>, (Len(u) + 1) \div 2 - 1) : u \in {x} } : TRUE

DblZero == [m |-> << >>, e |-> 0]
\* the double after m * 2^e
DblNext(m, e) ==
    CHOOSE res \in
        { IF up = TwoTo(53) THEN [m |-> TwoTo(52), e |-> e + 1] ELSE [m |-> up, e |-> e] :
            up \in {BigPlus(m, <<1>>)} } : TRUE
\* q * 2^t rounded: q the whole quotient, r the remainder of the division by
\* d.  Above the half, or at the half with q odd, the mantissa is q + 1.
DblNearest(q, r, d, t) ==
    CHOOSE res \in
        { IF BigLess(d, twice) \/ (twice = d /\ q[1] % 2 = 1) THEN DblNext(q, t)
          ELSE [m |-> q, e |-> t] : twice \in {BigTimes(r, <<2>>)} } : TRUE
\* with t the exponent for which 2^52 <= n / (d * 2^t) < 2^53
DblRoundAt(n, d, e, t) ==
    CHOOSE res \in
        { CHOOSE near \in
              { DblNearest(qr.q, qr.r, den, t + e) :
                  qr \in {BigDivide(BigShift(n, -t), den)} } : TRUE :
            den \in {BigShift(d, t)} } : TRUE
\* n / d lies between 2^(s - 1) and 2^(s + 1), s being the difference of the
\* numbers of binary digits
DblRoundNear(n, d, e, s) ==
    CHOOSE res \in
        { DblRoundAt(n, d, e, t) :
            t \in {IF BigLess(BigShift(n, -s), BigShift(d, s)) THEN s - 53 ELSE s - 52} } : TRUE
\* The double nearest to (n / d) * 2^e, for Bigs n # 0 and d # 0.
DblRound(n, d, e) ==
    CHOOSE res \in
        { CHOOSE at \in
              { DblRoundNear(u, v, e, s) : s \in {BigBits(u) - BigBits(v)} } : TRUE :
            u \in {n}, v \in {d} } : TRUE

\* Math.sqrt: the root of m * 2^e is the root of m * 2^52 (of 2m * 2^52 for
\* an odd e) times a power of two; the root is never half way between two
\* doubles, so it rounds up when what is left exceeds the whole root.
DblSqrtRounded(x, s, e) ==
    IF BigLess(s, BigMinus(x, BigTimes(s, s))) THEN DblNext(s, e) ELSE [m |-> s, e |-> e]
DblSqrtOf(x, e) ==
    CHOOSE res \in
        { CHOOSE rounded \in { DblSqrtRounded(u, s, e) : s \in {BigFloorSqrt(u)} } : TRUE :
            u \in {x} } : TRUE
DblSqrtValue(x) ==
    CHOOSE res \in
        { IF u = DblZero THEN DblZero
          ELSE IF u.e % 2 = 0 THEN DblSqrtOf(BigTimes(u.m, TwoTo(52)), u.e \div 2 - 26)
          ELSE DblSqrtOf(BigTimes(u.m, TwoTo(53)), (u.e - 1) \div 2 - 26) : u \in {x} } : TRUE

\* An expression of the source on doubles is written as a term and evaluated
\* operation by operation, each result rounded to the nearest double.
\* the double of a decimal literal or of a parsed decimal string n / d
DblOf(n, d) == [op |-> "of", n |-> n, d |-> d]
\* x * y
DblTimes(x, y) == [op |-> "times", x |-> x, y |-> y]
\* x / y for y # 0
DblDivide(x, y) == [op |-> "divide", x |-> x, y |-> y]
\* x + y
DblPlus(x, y) == [op |-> "plus", x |-> x, y |-> y]
\* x ** 2
DblSquared(x) == [op |-> "squared", x |-> x]
\* Math.sqrt(x)
DblSqrt(x) == [op |-> "sqrt", x |-> x]

\* The exact result of an operation on the doubles x and y, as (n / d) * 2^e
\* with n = << >> for zero.
DblExact(op, x, y) ==
    CHOOSE res \in
        { IF op = "times"
          THEN IF u = DblZero \/ v = DblZero THEN [n |-> << >>, d |-> <<1>>, e |-> 0]
               ELSE [n |-> BigTimes(u.m, v.m), d |-> <<1>>, e |-> u.e + v.e]
          ELSE IF op = "divide"
          THEN IF u = DblZero THEN [n |-> << >>, d |-> <<1>>, e |-> 0]
               ELSE [n |-> u.m, d |-> v.m, e |-> u.e - v.e]
          ELSE IF u = DblZero THEN [n |-> v.m, d |-> <<1>>, e |-> v.e]
          ELSE IF v = DblZero THEN [n |-> u.m, d |-> <<1>>, e |-> u.e]
          ELSE IF u.e < v.e
          THEN [n |-> BigPlus(u.m, BigShift(v.m, v.e - u.e)), d |-> <<1>>, e |-> u.e]
          ELSE [n |-> BigPlus(BigShift(u.m, u.e - v.e), v.m), d |-> <<1>>, e |-> v.e] :
            u \in {x}, v \in {y} } : TRUE

\* The double a term evaluates to.
RECURSIVE DblValue(_)
DblValue(t) ==
    IF t.op = "sqrt" THEN DblSqrtValue(DblValue(t.x))
    ELSE CHOOSE res \in
             { IF exact.n = << >> THEN DblZero ELSE DblRound(exact.n, exact.d, exact.e) :
                 exact \in
                     {IF t.op = "of" THEN [n |-> Big(t.n), d |-> Big(t.d), e |-> 0]
                      ELSE IF t.op = "squared"
                      THEN CHOOSE sq \in { DblExact("times", u, u) : u \in {DblValue(t.x)} } : TRUE
                      ELSE DblExact(t.op, DblValue(t.x), DblValue(t.y))} } : TRUE
DblValues(terms) == [k \in 1..Len(terms) |-> DblValue(terms[k])] \o << >>
\* x < y
DblLess(x, y) ==
    CHOOSE res \in
        { IF v = DblZero THEN FALSE
          ELSE IF u = DblZero THEN TRUE
          ELSE IF u.e # v.e THEN u.e < v.e
          ELSE BigLess(u.m, v.m) : u \in {x}, v \in {y} } : TRUE

\* const c = 2.99792458e8
c == 299792458
maxM == 3
maxN == 3

\* a / 1000 of the source: the state's length in metres
InMetres(a) == BigRat(Big(a), Big(1000000))
\* the state's frequency in hertz
InHertz(frequency) == BigRat(BigTimes(Big(frequency), Big(100000000)), <<1>>)

\* c and c / 2 as roots
LightSpeed == BigRootOf(BigWhole(c))
HalfLightSpeed == BigRootOf(BigRat(Big(c), <<2>>))

\* (c / 2) * Math.sqrt((m / (a / 1000)) ** 2 + (n / (b / 1000)) ** 2)
Cutoff(m, n, a, b) ==
    CHOOSE fc \in
        { BigRootTimes(HalfLightSpeed,
                       BigSqrt(BigRatPlus(BigRatTimes(mOverA, mOverA),
                                          BigRatTimes(nOverB, nOverB)))) :
            mOverA \in {BigRatDivide(BigWhole(m), InMetres(a))},
            nOverB \in {BigRatDivide(BigWhole(n), InMetres(b))} } : TRUE

\* The same expression in the doubles the program computes with: a and b are
\* the doubles of the decimal strings of the range inputs or of the literals
\* of the presets, x ** 2 is x * x rounded, c / 2 is the whole number
\* 149896229.
CutoffDouble(m, n, a, b) ==
    DblValue(
        DblTimes(DblOf(c, 2),
                 DblSqrt(DblPlus(
                     DblSquared(DblDivide(DblOf(m, 1), DblDivide(DblOf(a, 1000), DblOf(1000, 1)))),
                     DblSquared(DblDivide(DblOf(n, 1), DblDivide(DblOf(b, 1000), DblOf(1000, 1))))))))

PropagatesBelowCutoff(frequency, fc) == BigRootLess(BigRootOf(InHertz(frequency)), fc)
\* frequency > fc
Propagates(frequency, fc) == BigRootLess(fc, BigRootOf(InHertz(frequency)))

\* const ratio = fc / frequency
Ratio(frequency, fc) == BigRootDivide(fc, BigRootOf(InHertz(frequency)))

\* Math.sqrt(1 - ratio * ratio)
SqrtOneMinusRatioSq(ratio) == BigSqrt(BigRatMinus(BigWhole(1), ratio.sq))

\* (c / frequency) / root, root being Math.sqrt(1 - ratio * ratio)
GuidedWavelength(frequency, root) ==
    BigRootDivide(BigRootOf(BigRatDivide(BigWhole(c), InHertz(frequency))), root)
\* c / root
PhaseVelocity(root) == BigRootDivide(LightSpeed, root)
GroupVelocityNoSqrt(root) == BigRootTimes(LightSpeed, BigRootOf(root.sq))
\* c * root
GroupVelocity(root) == BigRootTimes(LightSpeed, root)

\* What lines 25-30 compute for a propagating mode; the three statements
\* take the same square root.
Propagating(frequency, fc) ==
    CHOOSE r \in
        { [lambdaG |-> GuidedWavelength(frequency, root),
           vp |-> PhaseVelocity(root),
           vg |-> GroupVelocity(root)] :
            root \in {SqrtOneMinusRatioSq(Ratio(frequency, fc))} } : TRUE

\* The record pushed for one (m, n) of either loop.
ModeRecord(m, n, type, a, b, frequency) ==
    CHOOSE r \in
        { IF Propagates(frequency, fc)
          THEN CHOOSE p \in
                   { [m |-> m, n |-> n, type |-> type, fc |-> fc, propagates |-> TRUE,
                      lambdaG |-> q.lambdaG, vp |-> q.vp, vg |-> q.vg] :
                       q \in {Propagating(frequency, fc)} } : TRUE
          ELSE [m |-> m, n |-> n, type |-> type, fc |-> fc, propagates |-> FALSE,
                lambdaG |-> null, vp |-> null, vg |-> null] :
            fc \in {Cutoff(m, n, a, b)} } : TRUE

\* for m in 0..mM, for n in 0..mN, skipping (0, 0): the TE records in push order
TEModes(a, b, frequency, mM, mN) ==
    LET all == [k \in 1..((mM + 1) * (mN + 1)) |->
                   ModeRecord((k - 1) \div (mN + 1), (k - 1) % (mN + 1),
                              "TE", a, b, frequency)]
        keep(r) == ~(r.m = 0 /\ r.n = 0)
    IN  SelectSeq(all, keep)

TMModesFromZero(a, b, frequency, mM, mN) ==
    [k \in 1..((mM + 1) * (mN + 1)) |->
        ModeRecord((k - 1) \div (mN + 1), (k - 1) % (mN + 1), "TM", a, b, frequency)]
\* for m in 1..mM, for n in 1..mN: the TM records in push order
TMModes(a, b, frequency, mM, mN) ==
    [k \in 1..(mM * mN) |->
        ModeRecord(1 + ((k - 1) \div mN), 1 + ((k - 1) % mN), "TM", a, b, frequency)]

CompareFcReversed(x, y) ==
    IF BigRootLess(y.fc, x.fc) THEN -1 ELSE IF BigRootLess(x.fc, y.fc) THEN 1 ELSE 0
\* The comparator (x, y) => x.fc - y.fc, by its sign, on the exact cutoffs.
CompareFc(x, y) ==
    IF BigRootLess(x.fc, y.fc) THEN -1 ELSE IF BigRootLess(y.fc, x.fc) THEN 1 ELSE 0

\* A stable sort with CompareFc, by insertion.
RECURSIVE InsertByFc(_, _)
InsertByFc(sorted, x) ==
    CHOOSE r \in
        { IF s = <<>> THEN <<y>>
          ELSE IF CompareFc(y, s[Len(s)]) < 0
               THEN Append(InsertByFc(SubSeq(s, 1, Len(s) - 1), y), s[Len(s)])
               ELSE Append(s, y) : s \in {sorted}, y \in {x} } : TRUE

RECURSIVE SortByFc(_)
SortByFc(result) ==
    CHOOSE r \in
        { IF s = <<>> THEN <<>>
          ELSE InsertByFc(SortByFc(SubSeq(s, 1, Len(s) - 1)), s[Len(s)]) :
            s \in {result} } : TRUE

\* Records i and j of a list sorted by the exact cutoff have the same exact
\* cutoff when every adjacent pair from the one to the other has; equal[k]
\* tells it of records k and k + 1.
SameCutoff(equal, i, j) ==
    \A k \in (IF i < j THEN i ELSE j)..((IF i < j THEN j ELSE i) - 1) : equal[k]

\* The records of equal exact cutoff put in the order of their doubles,
\* those of the same double staying as they were.  The records of one
\* (m, n), TE and TM, have the same double; the doubles of different (m, n)
\* are computed.
SortTiesByDouble(sorted, a, b) ==
    CHOOSE res \in
        { CHOOSE byDouble \in
              { CHOOSE placed \in
                    { CHOOSE list \in
                          { [k \in 1..Len(s) |-> s[CHOOSE i \in 1..Len(s) : place[i] = k]]
                                \o << >> :
                              place \in
                                  {[i \in 1..Len(s) |->
                                      1 + Cardinality(
                                            {j \in 1..Len(s) :
                                                IF SameCutoff(equal, i, j)
                                                THEN \/ DblLess(double[j], double[i])
                                                     \/ /\ j < i
                                                        /\ ~DblLess(double[i], double[j])
                                                ELSE j < i})] \o << >>} } : TRUE :
                        double \in
                            {[i \in 1..Len(s) |->
                                IF \E j \in 1..Len(s) :
                                      /\ SameCutoff(equal, i, j)
                                      /\ << s[j].m, s[j].n >> # << s[i].m, s[i].n >>
                                THEN CutoffDouble(s[i].m, s[i].n, a, b)
                                ELSE DblZero] \o << >>} } : TRUE :
                  equal \in
                      {[k \in 1..(Len(s) - 1) |-> BigRootEqual(s[k].fc, s[k + 1].fc)]
                          \o << >>} } : TRUE :
            s \in {sorted} } : TRUE

\* The useMemo block: both loops, then result.sort((x, y) => x.fc - y.fc), a
\* stable sort of doubles.  Two different exact cutoffs differ by more than
\* one part in 10^12 (their squares are c^2 / 4 times whole numbers below
\* 10^11 over the same a^2 b^2) and the roundings of the expression move a
\* double by less than one part in 10^15, so the doubles lie as the exact
\* values do; the list is sorted by the exact cutoffs, and then the records
\* of equal exact cutoff by their doubles, which may differ in the last
\* digit.
Modes(a, b, frequency, mM, mN) ==
    SortTiesByDouble(
        SortByFc(TEModes(a, b, frequency, mM, mN) \o TMModes(a, b, frequency, mM, mN)),
        a, b)

\* modes[0] (undefined when the list is empty)
Dominant(modes) == IF Len(modes) >= 1 THEN modes[1] ELSE undefined
\* modes.length > 1 ? modes[1].fc : Infinity
SingleModeMax(modes) == IF Len(modes) > 1 THEN modes[2].fc ELSE Infinity
SingleModeBWThirdMode(modes) ==
    Minus(IF Len(modes) > 2 THEN modes[3].fc ELSE Infinity,
          IF Len(modes) >= 1 THEN modes[1].fc ELSE RZero)
\* singleModeMax - (dominant?.fc ?? 0)
SingleModeBW(modes) ==
    Minus(SingleModeMax(modes), IF Len(modes) >= 1 THEN Dominant(modes).fc ELSE RZero)

\* The standard guides of the preset select, in micrometres.
WaveguidePresets ==
    [wr90 |-> [a |-> 22860, b |-> 10160],
     wr62 |-> [a |-> 15800, b |-> 7900],
     wr42 |-> [a |-> 10670, b |-> 4320],
     wr28 |-> [a |-> 7112, b |-> 3556],
     wr137 |-> [a |-> 34850, b |-> 15800]]

\* One render of the component from its hook state; preset is the option
\* the (uncontrolled) select shows.
WaveguideRender(a, b, frequency, preset) ==
    CHOOSE w \in
        { [mounted |-> TRUE, a |-> a, b |-> b, frequency |-> frequency,
           maxM |-> maxM, maxN |-> maxN, preset |-> preset,
           modes |-> modes,
           dominant |-> Dominant(modes),
           singleModeBW |-> SingleModeBW(modes)] :
            modes \in {Modes(a, b, frequency, maxM, maxN)} } : TRUE

\* useState(22.86), useState(10.16), useState(10e9); the select shows its
\* first option.
WaveguideInit ==
    /\ WaveguideModesModule = WaveguideRender(22860, 10160, 100, "wr90")
    /\ SnellModule = Unmounted
    /\ FresnelModule = Unmounted
    /\ MediumPropertiesModule = Unmounted
    /\ SkinDepthModule = Unmounted
    /\ LorentzForceModule = Unmounted
    /\ VectorOpsModule = Unmounted
    /\ PowerModule = Unmounted
    /\ BarcodeBrief = Unmounted
    /\ ResonanceModule = Unmounted
    /\ ImpedanceModule = Unmounted
    /\ SolarCellBrief = Unmounted
    /\ HelmholtzModule = Unmounted
    /\ TLineTransientModule = Unmounted
    /\ RCCircuitModule = Unmounted
    /\ wasm = Unmounted
    /\ App = Unmounted
    /\ MicrostripModule = Unmounted
    /\ ElectrostaticsModule = Unmounted

WaveguideOthers == << SnellModule, FresnelModule, MediumPropertiesModule, SkinDepthModule,
                      LorentzForceModule, VectorOpsModule, PowerModule, BarcodeBrief,
                      ResonanceModule, ImpedanceModule, SolarCellBrief, HelmholtzModule,
                      TLineTransientModule, RCCircuitModule, wasm, App, MicrostripModule,
                      ElectrostaticsModule >>

\* Values of the range inputs: a from 1 to 80 mm and b from 1 to 40 mm in
\* steps of 0.1 mm, the frequency from 1 to 50 GHz in steps of 100 MHz.
\* Each set holds the upper end of the range and one more value: with
\* a = 3 mm and b = 9 mm the TE10 and TE03 cutoffs are equal and their
\* doubles are not.
WaveguideControls ==
    [a |-> {3000, 80000},
     b |-> {9000, 40000},
     frequency |-> {10, 500}]

\* onChange of the preset select: setA(p.a); setB(p.b), rendered once.  The
\* event fires when another option is chosen.
WaveguideSelectPreset(key) ==
    /\ WaveguideModesModule.mounted
    /\ key # WaveguideModesModule.preset
    /\ WaveguideModesModule' =
          WaveguideRender(WaveguidePresets[key].a, WaveguidePresets[key].b,
                          WaveguideModesModule.frequency, key)
    /\ UNCHANGED WaveguideOthers

\* onChange of the a slider
SetA(v) ==
    /\ WaveguideModesModule.mounted
    /\ WaveguideModesModule' =
          WaveguideRender(v, WaveguideModesModule.b, WaveguideModesModule.frequency,
                          WaveguideModesModule.preset)
    /\ UNCHANGED WaveguideOthers

\* onChange of the b slider
SetB(v) ==
    /\ WaveguideModesModule.mounted
    /\ WaveguideModesModule' =
          WaveguideRender(WaveguideModesModule.a, v, WaveguideModesModule.frequency,
                          WaveguideModesModule.preset)
    /\ UNCHANGED WaveguideOthers

\* onChange of the operating-frequency slider
SetFrequency(v) ==
    /\ WaveguideModesModule.mounted
    /\ WaveguideModesModule' =
          WaveguideRender(WaveguideModesModule.a, WaveguideModesModule.b, v,
                          WaveguideModesModule.preset)
    /\ UNCHANGED WaveguideOthers

WaveguideNext ==
    \/ \E key \in DOMAIN WaveguidePresets : WaveguideSelectPreset(key)
    \/ \E v \in WaveguideControls.a : SetA(v)
    \/ \E v \in WaveguideControls.b : SetB(v)
    \/ \E v \in WaveguideControls.frequency : SetFrequency(v)

SpecWaveguide == WaveguideInit /\ [][WaveguideNext]_vars

(* Claims about the waveguide mode list                                    *)

\* The two sides of f > f_c for mode (m, n), squared and cleared of
\* fractions, stated on the state's integers without the record's own fc:
\* 4 f^2 a^2 b^2 against c^2 (m^2 b^2 + n^2 a^2), with f = 10^8 frequency
\* and a, b in units of 10^-6 m.
FourFSqASqBSq(w) ==
    BigTimes(BigTimes(Big(4 * w.frequency * w.frequency), Big(10000)),
             BigTimes(BigTimes(Big(w.a), Big(w.a)), BigTimes(Big(w.b), Big(w.b))))
CSqSum(r, w) ==
    BigTimes(BigTimes(Big(c), Big(c)),
             BigPlus(BigTimes(Big(r.m * r.m), BigTimes(Big(w.b), Big(w.b))),
                     BigTimes(Big(r.n * r.n), BigTimes(Big(w.a), Big(w.a)))))
AboveCutoff(r, w) == BigLess(CSqSum(r, w), FourFSqASqBSq(w))

\* C1: every enumerated TE and TM mode is flagged as propagating if and only
\* if the operating frequency is strictly greater than its cutoff frequency;
\* a mode with f = f_c is not propagating.
C1_PropagatesIffAboveCutoff ==
    WaveguideModesModule.mounted =>
        \A i \in DOMAIN WaveguideModesModule.modes :
            LET r == WaveguideModesModule.modes[i]
            IN  r.propagates <=> AboveCutoff(r, WaveguideModesModule)

\* A list in which the dominant mode propagates and a higher mode, whose
\* cutoff is not below the operating frequency, is evanescent.
C1_Witness ==
    /\ WaveguideModesModule.mounted
    /\ \E i, j \in DOMAIN WaveguideModesModule.modes :
          /\ ~AboveCutoff(WaveguideModesModule.modes[i], WaveguideModesModule)
          /\ ~WaveguideModesModule.modes[i].propagates
          /\ WaveguideModesModule.modes[j].propagates

ModeIndices(w, type, m, n) ==
    {i \in DOMAIN w.modes :
        w.modes[i].type = type /\ w.modes[i].m = m /\ w.modes[i].n = n}

\* C2: the list holds exactly one TE record for every (m, n) in
\* 0..maxM x 0..maxN other than (0, 0), exactly one TM record for every
\* (m, n) in 1..maxM x 1..maxN, and no other record.
C2_ModesEnumeratedOnce ==
    WaveguideModesModule.mounted =>
        LET w == WaveguideModesModule
        IN  /\ \A m \in 0..w.maxM, n \in 0..w.maxN :
                   Cardinality(ModeIndices(w, "TE", m, n))
                       = IF m = 0 /\ n = 0 THEN 0 ELSE 1
            /\ \A m \in 0..w.maxM, n \in 0..w.maxN :
                   Cardinality(ModeIndices(w, "TM", m, n))
                       = IF m = 0 \/ n = 0 THEN 0 ELSE 1
            /\ \A i \in DOMAIN w.modes :
                   /\ w.modes[i].type \in {"TE", "TM"}
                   /\ w.modes[i].m \in 0..w.maxM
                   /\ w.modes[i].n \in 0..w.maxN

\* A list of 15 TE and 9 TM records in which TE and TM records interleave.
C2_Witness ==
    /\ WaveguideModesModule.mounted
    /\ Len(WaveguideModesModule.modes) = 24
    /\ \E i \in DOMAIN WaveguideModesModule.modes :
          /\ i + 1 \in DOMAIN WaveguideModesModule.modes
          /\ WaveguideModesModule.modes[i].type = "TM"
          /\ WaveguideModesModule.modes[i + 1].type = "TE"

\* The index of a record of least cutoff among the indices idx.
LowestIn(w, idx) ==
    CHOOSE i \in idx : \A j \in idx : BigRootAtMost(w.modes[i].fc, w.modes[j].fc)

\* C3: the reported single-mode bandwidth is the second-lowest cutoff among
\* the enumerated modes minus the lowest (dominant) cutoff.
C3_SingleModeBandwidth ==
    WaveguideModesModule.mounted =>
        LET w == WaveguideModesModule
            low == LowestIn(w, DOMAIN w.modes)
            second == LowestIn(w, DOMAIN w.modes \ {low})
        IN  w.singleModeBW = Minus(w.modes[second].fc, w.modes[low].fc)

\* A guide whose dominant mode is TE10 and whose bandwidth is not zero.
C3_Witness ==
    /\ WaveguideModesModule.mounted
    /\ WaveguideModesModule.dominant.type = "TE"
    /\ WaveguideModesModule.dominant.m = 1
    /\ WaveguideModesModule.dominant.n = 0
    /\ WaveguideModesModule.singleModeBW.minuend
          # WaveguideModesModule.singleModeBW.subtrahend

\* C4: the mode list is in ascending order of cutoff frequency, so the
\* dominant mode's cutoff is no greater than any other mode's.
C4_ModesSortedByCutoff ==
    WaveguideModesModule.mounted =>
        LET w == WaveguideModesModule
        IN  /\ \A i \in DOMAIN w.modes :
                   i + 1 \in DOMAIN w.modes =>
                       BigRootAtMost(w.modes[i].fc, w.modes[i + 1].fc)
            /\ \A i \in DOMAIN w.modes : BigRootAtMost(w.dominant.fc, w.modes[i].fc)

\* The sort moved records: TE10, pushed after TE01..TE03, leads the list
\* and a TM record precedes a TE record.
C4_Witness ==
    /\ WaveguideModesModule.mounted
    /\ WaveguideModesModule.modes[1].m = 1
    /\ WaveguideModesModule.modes[1].n = 0
    /\ \E i \in DOMAIN WaveguideModesModule.modes :
          /\ WaveguideModesModule.modes[i].type = "TM"
          /\ BigRootLess(WaveguideModesModule.modes[i].fc,
                         WaveguideModesModule.modes[Len(WaveguideModesModule.modes)].fc)

\* C5: for every propagating mode the phase velocity times the group
\* velocity is c squared.
C5_VelocityProduct ==
    WaveguideModesModule.mounted =>
        \A i \in DOMAIN WaveguideModesModule.modes :
            LET r == WaveguideModesModule.modes[i]
            IN  r.propagates =>
                    BigRootEqual(BigRootTimes(r.vp, r.vg),
                                 BigRootTimes(LightSpeed, LightSpeed))

\* A TE and a TM mode propagate, with phase velocity above group velocity.
C5_Witness ==
    /\ WaveguideModesModule.mounted
    /\ \E i, j \in DOMAIN WaveguideModesModule.modes :
          /\ WaveguideModesModule.modes[i].type = "TE"
          /\ WaveguideModesModule.modes[j].type = "TM"
          /\ WaveguideModesModule.modes[i].propagates
          /\ WaveguideModesModule.modes[j].propagates
          /\ BigRootLess(WaveguideModesModule.modes[j].vg, WaveguideModesModule.modes[j].vp)

---------------------------------------------------------------------------
(* What a component renders                                                *)

\* A card shows either a number (the value toFixed formats) or a fixed text.
Number(x) == [number |-> x]
Label(text) == [label |-> text]
TypeError == [threw |-> "TypeError"]
\* x.toFixed(k): calling it on null or undefined throws a TypeError.
ToFixed(x) == IF x = null \/ x = undefined THEN TypeError ELSE Number(x)
\* A render whose JSX throws renders nothing: the exception leaves the
\* component function.  cells is the record of the cards' contents.
Rendered(cells) ==
    IF \E k \in DOMAIN cells : cells[k] = TypeError THEN TypeError ELSE cells
Crashed(component) == component.view = TypeError

---------------------------------------------------------------------------
(* The engine's fresnel_oblique (em_wasm), from the specification:         *)
(* Snell's law n1 sin(theta_i) = n2 sin(theta_t) with n = sqrt(er); when   *)
(* sin(theta_t) > 1 the result is marked as total internal reflection and  *)
(* theta_t and both reflection coefficients are left undefined; the        *)
(* Brewster angle arctan(n2 / n1) is always defined and the critical angle *)
(* arcsin(n2 / n1) only when n1 > n2.                                      *)
(*                                                                         *)
(* An angle of [0, 90] degrees is the record [sinSq |-> r] holding the     *)
(* square of its sine, which increases with the angle.  The angles of      *)
(* incidence are those whose sine has a rational square.                   *)

ThetaSet == {0, 30, 45, 60}
\* sin(theta)^2 for theta in degrees
SinSqDeg(theta) ==
    CASE theta = 0 -> Rat(0, 1)
      [] theta = 30 -> Rat(1, 4)
      [] theta = 45 -> Rat(1, 2)
      [] theta = 60 -> Rat(3, 4)
Angle(sinSq) == [sinSq |-> sinSq]
\* A reflection coefficient that is defined; its value is not evaluated.
GammaValue == [kind |-> "coefficient"]

fresnel_oblique(er1, er2, thetaI) ==
    LET sinSqT == RDiv(RMul(er1, SinSqDeg(thetaI)), er2)
        is_tir == RLt(ROne, sinSqT)
    IN  [theta_t_deg |-> IF is_tir THEN null ELSE Angle(sinSqT),
         is_tir |-> is_tir,
         critical_angle_deg |-> IF RLt(er2, er1) THEN Angle(RDiv(er2, er1)) ELSE null,
         brewster_angle_deg |-> Angle(RDiv(er2, RAdd(er1, er2))),
         gamma_perp |-> IF is_tir THEN null ELSE GammaValue,
         gamma_par |-> IF is_tir THEN null ELSE GammaValue]

---------------------------------------------------------------------------
(* SnellModule (src/unnamed/part_017)                                      *)

MaxCustomEr == 4
CustomErSet == 1..MaxCustomEr

MATERIALS ==
    [air |-> Rat(1, 1), water |-> Rat(177, 100), glass |-> Rat(225, 100),
     diamond |-> Rat(584, 100), silicon |-> Rat(117, 10), custom |-> Rat(4, 1)]
MaterialKeys == DOMAIN MATERIALS

\* mat === 'custom' ? customEr : MATERIALS[mat].er
SnellEr(mat, customEr) == IF mat = "custom" THEN Rat(customEr, 1) ELSE MATERIALS[mat]

\* the useMemo around wasm.fresnel_oblique(er1, er2, thetaI)
SnellResult(er1, er2, thetaI) == fresnel_oblique(er1, er2, thetaI)

\* The result cards (rendered when result is not null) and the ray drawing.
SnellView(er1, er2, result) ==
    Rendered(
        [n1 |-> ToFixed(MathSqrt(er1)),
         n2 |-> ToFixed(MathSqrt(er2)),
         theta_t |-> IF result.is_tir THEN Label("TIR")
                     ELSE IF result.theta_t_deg # null
                          THEN ToFixed(result.theta_t_deg)
                          ELSE Label("-"),
         brewster |-> ToFixed(result.brewster_angle_deg),
         critical |-> IF result.critical_angle_deg # null
                      THEN ToFixed(result.critical_angle_deg)
                      ELSE Label("N/A (n1 < n2)"),
         status |-> IF result.is_tir THEN Label("Total Internal Reflection")
                    ELSE Label("Transmitting"),
         gamma_perp |-> ToFixed(result.gamma_perp),
         gamma_par |-> ToFixed(result.gamma_par),
         transmittedRay |-> IF ~result.is_tir /\ result.theta_t_deg # null
                            THEN Number(result.theta_t_deg)
                            ELSE Label("none")])

SnellRender(mat1, mat2, customEr1, customEr2, thetaI) ==
    LET er1 == SnellEr(mat1, customEr1)
        er2 == SnellEr(mat2, customEr2)
        result == SnellResult(er1, er2, thetaI)
    IN  [mounted |-> TRUE, mat1 |-> mat1, mat2 |-> mat2,
         customEr1 |-> customEr1, customEr2 |-> customEr2, thetaI |-> thetaI,
         er1 |-> er1, er2 |-> er2,
         result |-> result,
         view |-> SnellView(er1, er2, result)]

\* useState defaults: air, glass, 1.0, 4.0, 30
SnellInit ==
    /\ SnellModule = SnellRender("air", "glass", 1, 4, 30)
    /\ FresnelModule = Unmounted
    /\ WaveguideModesModule = Unmounted
    /\ MediumPropertiesModule = Unmounted
    /\ SkinDepthModule = Unmounted
    /\ LorentzForceModule = Unmounted
    /\ VectorOpsModule = Unmounted
    /\ PowerModule = Unmounted
    /\ BarcodeBrief = Unmounted
    /\ ResonanceModule = Unmounted
    /\ ImpedanceModule = Unmounted
    /\ SolarCellBrief = Unmounted
    /\ HelmholtzModule = Unmounted
    /\ TLineTransientModule = Unmounted
    /\ RCCircuitModule = Unmounted
    /\ wasm = Unmounted
    /\ App = Unmounted
    /\ MicrostripModule = Unmounted
    /\ ElectrostaticsModule = Unmounted

SnellLive == SnellModule.mounted /\ ~Crashed(SnellModule)

SetMat1(v) ==
    /\ SnellLive
    /\ SnellModule' = SnellRender(v, SnellModule.mat2, SnellModule.customEr1,
                                  SnellModule.customEr2, SnellModule.thetaI)
    /\ UNCHANGED << FresnelModule, WaveguideModesModule, MediumPropertiesModule, SkinDepthModule,
                   LorentzForceModule, VectorOpsModule,
                   PowerModule,
                   BarcodeBrief,
                   ResonanceModule,
                   ImpedanceModule,
                   SolarCellBrief,
                   HelmholtzModule,
                   TLineTransientModule,
                   RCCircuitModule,
                   wasm,
                   App,
                   MicrostripModule,
                   ElectrostaticsModule >>

SetMat2(v) ==
    /\ SnellLive
    /\ SnellModule' = SnellRender(SnellModule.mat1, v, SnellModule.customEr1,
                                  SnellModule.customEr2, SnellModule.thetaI)
    /\ UNCHANGED << FresnelModule, WaveguideModesModule, MediumPropertiesModule, SkinDepthModule,
                   LorentzForceModule, VectorOpsModule,
                   PowerModule,
                   BarcodeBrief,
                   ResonanceModule,
                   ImpedanceModule,
                   SolarCellBrief,
                   HelmholtzModule,
                   TLineTransientModule,
                   RCCircuitModule,
                   wasm,
                   App,
                   MicrostripModule,
                   ElectrostaticsModule >>

\* the slider is rendered only while Medium 1 is 'custom'
SetCustomEr1(v) ==
    /\ SnellLive
    /\ SnellModule.mat1 = "custom"
    /\ SnellModule' = SnellRender(SnellModule.mat1, SnellModule.mat2, v,
                                  SnellModule.customEr2, SnellModule.thetaI)
    /\ UNCHANGED << FresnelModule, WaveguideModesModule, MediumPropertiesModule, SkinDepthModule,
                   LorentzForceModule, VectorOpsModule,
                   PowerModule,
                   BarcodeBrief,
                   ResonanceModule,
                   ImpedanceModule,
                   SolarCellBrief,
                   HelmholtzModule,
                   TLineTransientModule,
                   RCCircuitModule,
                   wasm,
                   App,
                   MicrostripModule,
                   ElectrostaticsModule >>

SetCustomEr2(v) ==
    /\ SnellLive
    /\ SnellModule.mat2 = "custom"
    /\ SnellModule' = SnellRender(SnellModule.mat1, SnellModule.mat2,
                                  SnellModule.customEr1, v, SnellModule.thetaI)
    /\ UNCHANGED << FresnelModule, WaveguideModesModule, MediumPropertiesModule, SkinDepthModule,
                   LorentzForceModule, VectorOpsModule,
                   PowerModule,
                   BarcodeBrief,
                   ResonanceModule,
                   ImpedanceModule,
                   SolarCellBrief,
                   HelmholtzModule,
                   TLineTransientModule,
                   RCCircuitModule,
                   wasm,
                   App,
                   MicrostripModule,
                   ElectrostaticsModule >>

SnellSetThetaI(v) ==
    /\ SnellLive
    /\ SnellModule' = SnellRender(SnellModule.mat1, SnellModule.mat2,
                                  SnellModule.customEr1, SnellModule.customEr2, v)
    /\ UNCHANGED << FresnelModule, WaveguideModesModule, MediumPropertiesModule, SkinDepthModule,
                   LorentzForceModule, VectorOpsModule,
                   PowerModule,
                   BarcodeBrief,
                   ResonanceModule,
                   ImpedanceModule,
                   SolarCellBrief,
                   HelmholtzModule,
                   TLineTransientModule,
                   RCCircuitModule,
                   wasm,
                   App,
                   MicrostripModule,
                   ElectrostaticsModule >>

SnellNext ==
    \/ \E v \in MaterialKeys : SetMat1(v)
    \/ \E v \in MaterialKeys : SetMat2(v)
    \/ \E v \in CustomErSet : SetCustomEr1(v)
    \/ \E v \in CustomErSet : SetCustomEr2(v)
    \/ \E v \in ThetaSet : SnellSetThetaI(v)

---------------------------------------------------------------------------
(* FresnelModule (src/web/src/modules/FresnelModule.tsx)                   *)

MaxEr == 4
ErSet == 1..MaxEr

FresnelAtAngleSwapped(er1, er2, thetaI) == fresnel_oblique(Rat(er2, 1), Rat(er1, 1), thetaI)
\* the useMemo around wasm.fresnel_oblique(er1, er2, thetaI)
FresnelAtAngle(er1, er2, thetaI) == fresnel_oblique(Rat(er1, 1), Rat(er2, 1), thetaI)

\* x != null, the loose test: false for null and for undefined
NotNullish(x) == x # null /\ x # undefined

\* The result grid.  Its four optional cells test with the loose != null.
FresnelView(atAngle) ==
    Rendered(
        [theta_t |-> IF NotNullish(atAngle.theta_t_deg)
                     THEN ToFixed(atAngle.theta_t_deg) ELSE Label("TIR"),
         tir |-> IF atAngle.is_tir THEN Label("Yes") ELSE Label("No"),
         brewster |-> ToFixed(atAngle.brewster_angle_deg),
         critical |-> IF NotNullish(atAngle.critical_angle_deg)
                      THEN ToFixed(atAngle.critical_angle_deg) ELSE Label("N/A"),
         gamma_perp |-> IF NotNullish(atAngle.gamma_perp)
                        THEN ToFixed(atAngle.gamma_perp) ELSE Label("-"),
         gamma_par |-> IF NotNullish(atAngle.gamma_par)
                       THEN ToFixed(atAngle.gamma_par) ELSE Label("-")])

FresnelRender(er1, er2, thetaI) ==
    LET atAngle == FresnelAtAngle(er1, er2, thetaI)
    IN  [mounted |-> TRUE, er1 |-> er1, er2 |-> er2, thetaI |-> thetaI,
         atAngle |-> atAngle,
         view |-> FresnelView(atAngle)]

\* useState defaults: 1.0, 4.0, 30
FresnelInit ==
    /\ FresnelModule = FresnelRender(1, 4, 30)
    /\ SnellModule = Unmounted
    /\ WaveguideModesModule = Unmounted
    /\ MediumPropertiesModule = Unmounted
    /\ SkinDepthModule = Unmounted
    /\ LorentzForceModule = Unmounted
    /\ VectorOpsModule = Unmounted
    /\ PowerModule = Unmounted
    /\ BarcodeBrief = Unmounted
    /\ ResonanceModule = Unmounted
    /\ ImpedanceModule = Unmounted
    /\ SolarCellBrief = Unmounted
    /\ HelmholtzModule = Unmounted
    /\ TLineTransientModule = Unmounted
    /\ RCCircuitModule = Unmounted
    /\ wasm = Unmounted
    /\ App = Unmounted
    /\ MicrostripModule = Unmounted
    /\ ElectrostaticsModule = Unmounted

FresnelLive == FresnelModule.mounted /\ ~Crashed(FresnelModule)

SetEr1(v) ==
    /\ FresnelLive
    /\ FresnelModule' = FresnelRender(v, FresnelModule.er2, FresnelModule.thetaI)
    /\ UNCHANGED << SnellModule, WaveguideModesModule, MediumPropertiesModule, SkinDepthModule,
                   LorentzForceModule, VectorOpsModule,
                   PowerModule,
                   BarcodeBrief,
                   ResonanceModule,
                   ImpedanceModule,
                   SolarCellBrief,
                   HelmholtzModule,
                   TLineTransientModule,
                   RCCircuitModule,
                   wasm,
                   App,
                   MicrostripModule,
                   ElectrostaticsModule >>

SetEr2(v) ==
    /\ FresnelLive
    /\ FresnelModule' = FresnelRender(FresnelModule.er1, v, FresnelModule.thetaI)
    /\ UNCHANGED << SnellModule, WaveguideModesModule, MediumPropertiesModule, SkinDepthModule,
                   LorentzForceModule, VectorOpsModule,
                   PowerModule,
                   BarcodeBrief,
                   ResonanceModule,
                   ImpedanceModule,
                   SolarCellBrief,
                   HelmholtzModule,
                   TLineTransientModule,
                   RCCircuitModule,
                   wasm,
                   App,
                   MicrostripModule,
                   ElectrostaticsModule >>

FresnelSetThetaI(v) ==
    /\ FresnelLive
    /\ FresnelModule' = FresnelRender(FresnelModule.er1, FresnelModule.er2, v)
    /\ UNCHANGED << SnellModule, WaveguideModesModule, MediumPropertiesModule, SkinDepthModule,
                   LorentzForceModule, VectorOpsModule,
                   PowerModule,
                   BarcodeBrief,
                   ResonanceModule,
                   ImpedanceModule,
                   SolarCellBrief,
                   HelmholtzModule,
                   TLineTransientModule,
                   RCCircuitModule,
                   wasm,
                   App,
                   MicrostripModule,
                   ElectrostaticsModule >>

FresnelNext ==
    \/ \E v \in ErSet : SetEr1(v)
    \/ \E v \in ErSet : SetEr2(v)
    \/ \E v \in ThetaSet : FresnelSetThetaI(v)

\* The user is on the Snell view or on the Fresnel view.
RefractionInit == SnellInit \/ FresnelInit
RefractionNext == SnellNext \/ FresnelNext
SpecRefraction == RefractionInit /\ [][RefractionNext]_vars

(* Claims about the rendering of total internal reflection                 *)

IsLabel(cell) == DOMAIN cell = {"label"}

\* C7: whenever the result marks total internal reflection, the Snell and
\* the Fresnel view render theta_t and both reflection coefficients as a
\* dash or a label, never as a number, and rendering does not throw.
C7_TirRenderedAsLabels ==
    /\ (SnellModule.mounted /\ SnellModule.result.is_tir) =>
           /\ SnellModule.view # TypeError
           /\ IsLabel(SnellModule.view.theta_t)
           /\ IsLabel(SnellModule.view.gamma_perp)
           /\ IsLabel(SnellModule.view.gamma_par)
    /\ (FresnelModule.mounted /\ FresnelModule.atAngle.is_tir) =>
           /\ FresnelModule.view # TypeError
           /\ IsLabel(FresnelModule.view.theta_t)
           /\ IsLabel(FresnelModule.view.gamma_perp)
           /\ IsLabel(FresnelModule.view.gamma_par)

---------------------------------------------------------------------------
(* The engine's medium_properties (em_wasm), from the specification: the   *)
(* loss tangent sigma / (omega epsilon), the class of the medium by the    *)
(* loss tangent, the attenuation constant alpha = Re(gamma) and the skin   *)
(* depth 1 / alpha, which is absent when alpha is 0 (a lossless medium,    *)
(* sigma = 0).  alpha of a lossy medium is positive; its value, like that  *)
(* of the other outputs, is not evaluated and is kept as the term it       *)
(* stands for.  Each caller reads the result under the field names of its  *)
(* own code: MediumRender and SkinPointProps below.                        *)

EngineNumber(name) == [kind |-> "number", of |-> name]

\* A number m * 10^e, with 1 <= m < 10 or m = 0.
RECURSIVE Decimal(_, _)
Decimal(m, e) ==
    IF m.n = 0 THEN [m |-> RZero, e |-> 0]
    ELSE IF ~RLt(m, Rat(10, 1)) THEN Decimal(RMul(m, Rat(1, 10)), e + 1)
    ELSE IF RLt(m, ROne) THEN Decimal(RMul(m, Rat(10, 1)), e - 1)
    ELSE [m |-> m, e |-> e]

\* x < 10^k and x > 10^k for a number x >= 0 of that form
LtPowerOfTen(x, k) == x.m = RZero \/ x.e < k
GtPowerOfTen(x, k) == x.m # RZero /\ (x.e > k \/ (x.e = k /\ x.m # ROne))

\* 2 pi epsilon_0 = 5.5632e-11 F/m
TwoPiEpsilon0 == [m |-> Rat(55632, 10000), e |-> -11]

\* The frequency in Hz: the callers hand over either a number of GHz or
\* the exponent of a power of ten.
Hertz(frequency) ==
    IF DOMAIN frequency = {"GHz"} THEN Decimal(Rat(frequency.GHz, 1), 9)
    ELSE [m |-> ROne, e |-> frequency.tenToThe]

\* sigma / (omega epsilon), omega = 2 pi f and epsilon = epsilon_0 epsilon_r
LossTangent(epsilon_r, sigma, frequency) ==
    LET s == Decimal(sigma, 0)
        f == Hertz(frequency)
        den == RMul(RMul(TwoPiEpsilon0.m, epsilon_r), f.m)
    IN  Decimal(RDiv(s.m, den), s.e - TwoPiEpsilon0.e - f.e)

\* low-loss below 0.01, good conductor above 100, lossy between
Classify(loss_tangent) ==
    IF LtPowerOfTen(loss_tangent, -2) THEN "low-loss"
    ELSE IF GtPowerOfTen(loss_tangent, 2) THEN "good-conductor"
    ELSE "lossy"

\* The quantities the engine computes for one medium and frequency.
medium_properties(epsilon_r, mu_r, sigma, frequency) ==
    LET alpha == IF sigma.n = 0 THEN RZero
                 ELSE [re_gamma |-> << epsilon_r, mu_r, sigma, frequency >>]
        loss_tangent == LossTangent(epsilon_r, sigma, frequency)
    IN  [alpha |-> alpha,
         beta |-> EngineNumber("beta"),
         loss_tangent |-> loss_tangent,
         class |-> Classify(loss_tangent),
         skin_depth |-> IF alpha = RZero THEN null ELSE [reciprocal |-> alpha],
         phase_velocity |-> EngineNumber("phase_velocity"),
         wavelength |-> EngineNumber("wavelength"),
         eta_mag |-> EngineNumber("eta_mag")]

\* x * k in JavaScript, k a positive number: null counts as 0, undefined
\* gives NaN, and NaN and Infinity stay what they are.
JSTimes(x, k) ==
    IF x = null THEN RZero
    ELSE IF x = undefined \/ x = NaN THEN NaN
    ELSE IF x = Infinity THEN Infinity
    ELSE [product |-> << x, k >>]
\* x / k in JavaScript, k a positive number
JSDividedBy(x, k) ==
    IF x = null THEN RZero
    ELSE IF x = undefined \/ x = NaN THEN NaN
    ELSE IF x = Infinity THEN Infinity
    ELSE [quotient |-> << x, k >>]
\* The global isFinite(x): x is made a number first, so that undefined (NaN)
\* is not finite and null (0) is.
isFinite(x) == x # Infinity /\ x # NaN /\ x # undefined

---------------------------------------------------------------------------
(* MediumPropertiesModule (src/web/src/App.tsx)                            *)
(* epsilonR and muR as entered, conductivity in hundredths of S/m (the     *)
(* step of its input), frequency in GHz (the unit of its input).           *)

MaxEpsilonR == 4
MaxMuR == 2
MaxConductivity == 2
MaxMediumFrequency == 2

MediumSkinDepthCardUnguarded(props) == ToFixed(JSTimes(props.skin_depth_m, 1000))
\* props.skin_depth_m != null ? (props.skin_depth_m * 1000).toFixed(3) + ' mm' : the infinity sign
MediumSkinDepthCard(props) ==
    IF props.skin_depth_m # null /\ props.skin_depth_m # undefined
    THEN ToFixed(JSTimes(props.skin_depth_m, 1000))
    ELSE Label("infinity")

\* The result grid.  The loss tangent, alpha, beta and |eta| are formatted
\* as they are; the phase velocity is divided by 1e8 and the wavelength
\* multiplied by 100 before they are formatted.
MediumView(props) ==
    Rendered(
        [loss_tangent |-> ToFixed(props.loss_tangent),
         classification |-> Label(props.classification),
         alpha |-> ToFixed(props.alpha),
         beta |-> ToFixed(props.beta),
         skin_depth |-> MediumSkinDepthCard(props),
         phase_velocity |-> ToFixed(JSDividedBy(props.phase_velocity, 100000000)),
         wavelength |-> ToFixed(JSTimes(props.wavelength, 100)),
         eta_mag |-> ToFixed(props.eta_mag)])

\* props is the engine result under the names the result grid reads.
MediumRender(epsilonR, muR, conductivity, frequency) ==
    CHOOSE rendered \in
        { CHOOSE shown \in
              { [mounted |-> TRUE, epsilonR |-> epsilonR, muR |-> muR,
                 conductivity |-> conductivity, frequency |-> frequency,
                 props |-> props,
                 view |-> MediumView(props)] :
                  props \in {[loss_tangent |-> result.loss_tangent,
                              classification |-> result.class,
                              alpha |-> result.alpha,
                              beta |-> result.beta,
                              skin_depth_m |-> result.skin_depth,
                              phase_velocity |-> result.phase_velocity,
                              wavelength |-> result.wavelength,
                              eta_mag |-> result.eta_mag]} } : TRUE :
            result \in {medium_properties(Rat(epsilonR, 1), Rat(muR, 1),
                                          Rat(conductivity, 100), [GHz |-> frequency])} } : TRUE

\* useState defaults: 4.0, 1.0, 0.01 S/m, 1e9 Hz
MediumInit ==
    /\ MediumPropertiesModule = MediumRender(4, 1, 1, 1)
    /\ SkinDepthModule = Unmounted
    /\ WaveguideModesModule = Unmounted
    /\ SnellModule = Unmounted
    /\ FresnelModule = Unmounted
    /\ LorentzForceModule = Unmounted
    /\ VectorOpsModule = Unmounted
    /\ PowerModule = Unmounted
    /\ BarcodeBrief = Unmounted
    /\ ResonanceModule = Unmounted
    /\ ImpedanceModule = Unmounted
    /\ SolarCellBrief = Unmounted
    /\ HelmholtzModule = Unmounted
    /\ TLineTransientModule = Unmounted
    /\ RCCircuitModule = Unmounted
    /\ wasm = Unmounted
    /\ App = Unmounted
    /\ MicrostripModule = Unmounted
    /\ ElectrostaticsModule = Unmounted

MediumLive == MediumPropertiesModule.mounted /\ ~Crashed(MediumPropertiesModule)
MediumOthers == << SkinDepthModule, WaveguideModesModule, SnellModule, FresnelModule,
                  LorentzForceModule, VectorOpsModule,
                  PowerModule,
                  BarcodeBrief,
                  ResonanceModule,
                  ImpedanceModule,
                  SolarCellBrief,
                  HelmholtzModule,
                  TLineTransientModule,
                  RCCircuitModule,
                  wasm,
                  App,
                  MicrostripModule,
                  ElectrostaticsModule >>

SetEpsilonR(v) ==
    /\ MediumLive
    /\ MediumPropertiesModule' =
          MediumRender(v, MediumPropertiesModule.muR,
                       MediumPropertiesModule.conductivity, MediumPropertiesModule.frequency)
    /\ UNCHANGED MediumOthers

SetMuR(v) ==
    /\ MediumLive
    /\ MediumPropertiesModule' =
          MediumRender(MediumPropertiesModule.epsilonR, v,
                       MediumPropertiesModule.conductivity, MediumPropertiesModule.frequency)
    /\ UNCHANGED MediumOthers

SetConductivity(v) ==
    /\ MediumLive
    /\ MediumPropertiesModule' =
          MediumRender(MediumPropertiesModule.epsilonR, MediumPropertiesModule.muR,
                       v, MediumPropertiesModule.frequency)
    /\ UNCHANGED MediumOthers

MediumSetFrequency(v) ==
    /\ MediumLive
    /\ MediumPropertiesModule' =
          MediumRender(MediumPropertiesModule.epsilonR, MediumPropertiesModule.muR,
                       MediumPropertiesModule.conductivity, v)
    /\ UNCHANGED MediumOthers

MediumNext ==
    \/ \E v \in 1..MaxEpsilonR : SetEpsilonR(v)
    \/ \E v \in 1..MaxMuR : SetMuR(v)
    \/ \E v \in 0..MaxConductivity : SetConductivity(v)
    \/ \E v \in 1..MaxMediumFrequency : MediumSetFrequency(v)

---------------------------------------------------------------------------
(* SkinDepthModule (src/web/src/modules/HelmholtzModule.tsx)               *)
(* frequency is 10 ** (slider value) and is kept as that exponent; e0 is   *)
(* in tenths of V/m (the step of its slider).                              *)

SKIN_MATERIALS ==
    [copper |-> [epsilon_r |-> Rat(1, 1), sigma |-> Rat(58000000, 1)],
     aluminum |-> [epsilon_r |-> Rat(1, 1), sigma |-> Rat(35000000, 1)],
     seawater |-> [epsilon_r |-> Rat(81, 1), sigma |-> Rat(4, 1)],
     iron |-> [epsilon_r |-> Rat(1, 1), sigma |-> Rat(10000000, 1)],
     silicon |-> [epsilon_r |-> Rat(117, 10), sigma |-> Rat(156, 100000)],
     wet_soil |-> [epsilon_r |-> Rat(10, 1), sigma |-> Rat(1, 100)]]

MinLogFrequency == 3
MaxLogFrequency == 12
MaxE0 == 10

\* the attenData useMemo: the skin depth of medium_properties times 5 is
\* the depth handed to attenuation_profile
SkinAttenData(mat, frequency, e0) ==
    LET props == medium_properties(mat.epsilon_r, ROne, mat.sigma, frequency)
    IN  [zMax |-> JSTimes(props.skin_depth, 5),
         skin_depth |-> props.skin_depth,
         alpha |-> props.alpha]

\* the pointProps useMemo: the engine result under the names of the cast.
\* Nothing under src/ and no sentence of the specification determines the
\* flag is_good_conductor, so it comes from outside with either value.
SkinPointProps(mat, frequency, is_good_conductor) ==
    CHOOSE pointProps \in
        { [skin_depth |-> result.skin_depth,
           alpha |-> result.alpha,
           beta |-> result.beta,
           phase_velocity |-> result.phase_velocity,
           wavelength |-> result.wavelength,
           loss_tangent |-> result.loss_tangent,
           is_good_conductor |-> is_good_conductor] :
            result \in {medium_properties(mat.epsilon_r, ROne, mat.sigma, frequency)} } : TRUE

\* The skin-depth card: the three branches print the number in micrometres,
\* millimetres or metres.  null < 1e-3 holds (null counts as 0), so a null
\* skin depth is printed as 0; undefined fails both comparisons and
\* undefined.toFixed throws.
SkinDepthCard(pointProps) ==
    IF pointProps.skin_depth = undefined THEN TypeError
    ELSE IF pointProps.skin_depth = null THEN ToFixed(JSTimes(null, 1000000))
    ELSE ToFixed(pointProps.skin_depth)

\* pointProps.is_good_conductor ? 'Good Conductor'
\*     : pointProps.loss_tangent < 0.01 ? 'Low-Loss' : 'Lossy'
SkinClassificationCard(pointProps) ==
    IF pointProps.is_good_conductor THEN Label("Good Conductor")
    ELSE IF LtPowerOfTen(pointProps.loss_tangent, -2) THEN Label("Low-Loss")
    ELSE Label("Lossy")

SkinView(pointProps) ==
    Rendered(
        [skin_depth |-> SkinDepthCard(pointProps),
         alpha |-> ToFixed(pointProps.alpha),
         loss_tangent |-> ToFixed(pointProps.loss_tangent),
         classification |-> SkinClassificationCard(pointProps)])

SkinRender(material, frequency, e0, is_good_conductor) ==
    CHOOSE rendered \in
        { [mounted |-> TRUE, material |-> material, frequency |-> frequency, e0 |-> e0,
           attenData |-> SkinAttenData(SKIN_MATERIALS[material], [tenToThe |-> frequency], e0),
           pointProps |-> pointProps,
           view |-> SkinView(pointProps)] :
            pointProps \in {SkinPointProps(SKIN_MATERIALS[material], [tenToThe |-> frequency],
                                           is_good_conductor)} } : TRUE

\* useState defaults: copper, 1e9 Hz, 1.0 V/m
SkinInit ==
    /\ \E flag \in BOOLEAN : SkinDepthModule = SkinRender("copper", 9, 10, flag)
    /\ MediumPropertiesModule = Unmounted
    /\ WaveguideModesModule = Unmounted
    /\ SnellModule = Unmounted
    /\ FresnelModule = Unmounted
    /\ LorentzForceModule = Unmounted
    /\ VectorOpsModule = Unmounted
    /\ PowerModule = Unmounted
    /\ BarcodeBrief = Unmounted
    /\ ResonanceModule = Unmounted
    /\ ImpedanceModule = Unmounted
    /\ SolarCellBrief = Unmounted
    /\ HelmholtzModule = Unmounted
    /\ TLineTransientModule = Unmounted
    /\ RCCircuitModule = Unmounted
    /\ wasm = Unmounted
    /\ App = Unmounted
    /\ MicrostripModule = Unmounted
    /\ ElectrostaticsModule = Unmounted

SkinLive == SkinDepthModule.mounted /\ ~Crashed(SkinDepthModule)
SkinOthers == << MediumPropertiesModule, WaveguideModesModule, SnellModule, FresnelModule,
                LorentzForceModule, VectorOpsModule,
                PowerModule,
                BarcodeBrief,
                ResonanceModule,
                ImpedanceModule,
                SolarCellBrief,
                HelmholtzModule,
                TLineTransientModule,
                RCCircuitModule,
                wasm,
                App,
                MicrostripModule,
                ElectrostaticsModule >>

\* The pointProps useMemo runs again when the material or the frequency
\* changes, and the engine then answers with a flag of its own.
SetMaterial(v) ==
    /\ SkinLive
    /\ \E flag \in BOOLEAN :
          /\ v = SkinDepthModule.material =>
                 flag = SkinDepthModule.pointProps.is_good_conductor
          /\ SkinDepthModule' =
                SkinRender(v, SkinDepthModule.frequency, SkinDepthModule.e0, flag)
    /\ UNCHANGED SkinOthers

SkinSetFrequency(v) ==
    /\ SkinLive
    /\ \E flag \in BOOLEAN :
          /\ v = SkinDepthModule.frequency =>
                 flag = SkinDepthModule.pointProps.is_good_conductor
          /\ SkinDepthModule' =
                SkinRender(SkinDepthModule.material, v, SkinDepthModule.e0, flag)
    /\ UNCHANGED SkinOthers

SetE0(v) ==
    /\ SkinLive
    /\ SkinDepthModule' =
          SkinRender(SkinDepthModule.material, SkinDepthModule.frequency, v,
                     SkinDepthModule.pointProps.is_good_conductor)
    /\ UNCHANGED SkinOthers

SkinNext ==
    \/ \E v \in DOMAIN SKIN_MATERIALS : SetMaterial(v)
    \/ \E v \in MinLogFrequency..MaxLogFrequency : SkinSetFrequency(v)
    \/ \E v \in 1..MaxE0 : SetE0(v)

\* The user is on the Medium Properties view or on the Skin Depth view.
MediumSkinInit == MediumInit \/ SkinInit
MediumSkinNext == MediumNext \/ SkinNext
SpecMedium == MediumSkinInit /\ [][MediumSkinNext]_vars

(* Claims about the skin depth of a lossless medium                        *)

\* C8: when the medium is lossless and the engine result has no skin depth,
\* every view of the skin depth shows the infinity sign (the label "infinity") instead of a number,
\* does not compute with the absent value, and renders without throwing.
C8_LosslessSkinDepthShownAsInfinity ==
    /\ (MediumPropertiesModule.mounted
            /\ MediumPropertiesModule.props.skin_depth_m = null) =>
           /\ MediumPropertiesModule.view # TypeError
           /\ MediumPropertiesModule.view.skin_depth = Label("infinity")
    /\ (SkinDepthModule.mounted /\ SkinDepthModule.pointProps.skin_depth = null) =>
           /\ SkinDepthModule.view # TypeError
           /\ SkinDepthModule.view.skin_depth = Label("infinity")
           /\ SkinDepthModule.attenData.zMax # JSTimes(null, 5)

\* A lossless medium (sigma = 0) on the Medium Properties view.
C8_Witness ==
    /\ MediumPropertiesModule.mounted
    /\ MediumPropertiesModule.conductivity = 0
    /\ MediumPropertiesModule.props.alpha = RZero
    /\ MediumPropertiesModule.props.skin_depth_m = null
    /\ MediumPropertiesModule.view.skin_depth = Label("infinity")

---------------------------------------------------------------------------
(* LorentzForceModule (src/web/src/modules/LorentzForceModule.tsx)         *)
(*                                                                         *)
(* Units: charge in 1.6e-19 C, mass in 1e-30 kg, velocity in 1e6 m/s,      *)
(* E in 100 V/m, B in 0.1 T.  One unit of v x B is then 1e5 V/m, which is  *)
(* 1000 units of E, and forces are in 1.6e-17 N.  A quantity that is a     *)
(* rational multiple of a square root is kept factored.                    *)

MaxV == 1
MaxE == 1
MaxBField == 1
\* the values entered for the components that start at 0
OffAxis == {0, 1}

presets ==
    [electron |-> [q |-> -1, m |-> Rat(9109, 10000)],
     proton |-> [q |-> 1, m |-> Rat(1673, 1)],
     alpha |-> [q |-> 2, m |-> Rat(6646, 1)]]

\* coef * root
Scaled(coef, root) == [coef |-> coef, root |-> root]

SumSq(t) == t[1] * t[1] + t[2] * t[2] + t[3] * t[3]
CrossProduct(u, w) ==
    << u[2] * w[3] - u[3] * w[2], u[3] * w[1] - u[1] * w[3], u[1] * w[2] - u[2] * w[1] >>
Magnitude(t) == MathSqrt(Rat(SumSq(t), 1))

\* isFinite(x) of a number
IsFinite(x) == x # Infinity /\ x # NaN

\* sqrt(|v x B|^2) / bMag: 0 / 0 = NaN when B = 0
VPerp(vCrossB, bMag) == RootDiv(Magnitude(vCrossB), bMag)

CyclotronRadiusZeroFallback(mass, vPerp, q, bMag) ==
    IF RootLt(RootOf(RZero), bMag)
    THEN Scaled(RDiv(mass, Rat(Abs(q), 1)), RootDiv(vPerp, bMag))
    ELSE RZero
\* bMag > 0 ? mass * vPerp / (Math.abs(q) * bMag) : Infinity
CyclotronRadius(mass, vPerp, q, bMag) ==
    IF RootLt(RootOf(RZero), bMag)
    THEN Scaled(RDiv(mass, Rat(Abs(q), 1)), RootDiv(vPerp, bMag))
    ELSE Infinity

\* bMag > 0 ? Math.abs(q) * bMag / (2 * Math.PI * mass) : 0, in units of
\* 1 / (2 pi)
CyclotronFreq(mass, q, bMag) ==
    IF RootLt(RootOf(RZero), bMag)
    THEN Scaled(RDiv(Rat(Abs(q), 1), mass), bMag)
    ELSE RZero

\* the results useMemo
LorentzResults(in) ==
    LET v == << in.vx, in.vy, in.vz >>
        b == << in.bx, in.by, in.bz >>
        vCrossB == CrossProduct(v, b)
        fe == << in.q * in.ex, in.q * in.ey, in.q * in.ez >>
        fb == << 1000 * in.q * vCrossB[1], 1000 * in.q * vCrossB[2],
                 1000 * in.q * vCrossB[3] >>
        f == << fe[1] + fb[1], fe[2] + fb[2], fe[3] + fb[3] >>
        bMag == Magnitude(b)
        vPerp == VPerp(vCrossB, bMag)
    IN  [fe |-> [x |-> fe[1], y |-> fe[2], z |-> fe[3], mag |-> Magnitude(fe)],
         fb |-> [x |-> fb[1], y |-> fb[2], z |-> fb[3], mag |-> Magnitude(fb)],
         f |-> [x |-> f[1], y |-> f[2], z |-> f[3], mag |-> Magnitude(f)],
         accel |-> Scaled(RDiv(ROne, in.mass), Magnitude(f)),
         vMag |-> Magnitude(v),
         bMag |-> bMag,
         cyclotronRadius |-> CyclotronRadius(in.mass, vPerp, in.q, bMag),
         cyclotronFreq |-> CyclotronFreq(in.mass, in.q, bMag)]

\* The cyclotron-radius card: a finite radius is printed as a number (in
\* mm below 0.01 m, in m otherwise), anything else as the infinity sign.
CyclotronRadiusCard(cyclotronRadius) ==
    IF isFinite(cyclotronRadius)
    THEN (IF cyclotronRadius = null THEN ToFixed(JSTimes(cyclotronRadius, 1000))
          ELSE ToFixed(cyclotronRadius))
    ELSE Label("infinity")

LorentzView(results) ==
    Rendered(
        [fe |-> ToFixed(<< results.fe.x, results.fe.y, results.fe.z >>),
         fe_mag |-> ToFixed(results.fe.mag),
         fb |-> ToFixed(<< results.fb.x, results.fb.y, results.fb.z >>),
         fb_mag |-> ToFixed(results.fb.mag),
         f |-> ToFixed(<< results.f.x, results.f.y, results.f.z >>),
         f_mag |-> ToFixed(results.f.mag),
         accel |-> ToFixed(results.accel),
         cyclotronRadius |-> CyclotronRadiusCard(results.cyclotronRadius),
         cyclotronFreq |-> ToFixed(results.cyclotronFreq)])

LorentzRender(in) ==
    LET results == LorentzResults(in)
    IN  [mounted |-> TRUE, in |-> in,
         results |-> results,
         view |-> LorentzView(results)]

\* useState defaults: q = 1.6e-19, v = (1e6, 0, 0), E = (0, 100, 0),
\* B = (0, 0, 0.1), mass = 9.109e-31
LorentzInit ==
    /\ LorentzForceModule =
          LorentzRender([q |-> 1, vx |-> 1, vy |-> 0, vz |-> 0,
                         ex |-> 0, ey |-> 1, ez |-> 0,
                         bx |-> 0, by |-> 0, bz |-> 1,
                         mass |-> Rat(9109, 10000)])
    /\ VectorOpsModule = Unmounted
    /\ WaveguideModesModule = Unmounted
    /\ SnellModule = Unmounted
    /\ FresnelModule = Unmounted
    /\ MediumPropertiesModule = Unmounted
    /\ SkinDepthModule = Unmounted
    /\ PowerModule = Unmounted
    /\ BarcodeBrief = Unmounted
    /\ ResonanceModule = Unmounted
    /\ ImpedanceModule = Unmounted
    /\ SolarCellBrief = Unmounted
    /\ HelmholtzModule = Unmounted
    /\ TLineTransientModule = Unmounted
    /\ RCCircuitModule = Unmounted
    /\ wasm = Unmounted
    /\ App = Unmounted
    /\ MicrostripModule = Unmounted
    /\ ElectrostaticsModule = Unmounted

LorentzLive == LorentzForceModule.mounted /\ ~Crashed(LorentzForceModule)
LorentzOthers == << VectorOpsModule, WaveguideModesModule, SnellModule, FresnelModule,
                    MediumPropertiesModule, SkinDepthModule,
                    PowerModule,
                    BarcodeBrief,
                    ResonanceModule,
                    ImpedanceModule,
                    SolarCellBrief,
                    HelmholtzModule,
                    TLineTransientModule,
                    RCCircuitModule,
                    wasm,
                    App,
                    MicrostripModule,
                    ElectrostaticsModule >>

\* the particle select: setQ(p.q); setMass(p.m)
SelectPreset(k) ==
    /\ LorentzLive
    /\ LorentzForceModule' =
          LorentzRender([LorentzForceModule.in EXCEPT !.q = presets[k].q,
                                                      !.mass = presets[k].m])
    /\ UNCHANGED LorentzOthers

SetVx(x) ==
    /\ LorentzLive
    /\ LorentzForceModule' = LorentzRender([LorentzForceModule.in EXCEPT !.vx = x])
    /\ UNCHANGED LorentzOthers

SetVy(x) ==
    /\ LorentzLive
    /\ LorentzForceModule' = LorentzRender([LorentzForceModule.in EXCEPT !.vy = x])
    /\ UNCHANGED LorentzOthers

SetVz(x) ==
    /\ LorentzLive
    /\ LorentzForceModule' = LorentzRender([LorentzForceModule.in EXCEPT !.vz = x])
    /\ UNCHANGED LorentzOthers

SetEx(x) ==
    /\ LorentzLive
    /\ LorentzForceModule' = LorentzRender([LorentzForceModule.in EXCEPT !.ex = x])
    /\ UNCHANGED LorentzOthers

SetEy(x) ==
    /\ LorentzLive
    /\ LorentzForceModule' = LorentzRender([LorentzForceModule.in EXCEPT !.ey = x])
    /\ UNCHANGED LorentzOthers

SetEz(x) ==
    /\ LorentzLive
    /\ LorentzForceModule' = LorentzRender([LorentzForceModule.in EXCEPT !.ez = x])
    /\ UNCHANGED LorentzOthers

LorentzSetBx(x) ==
    /\ LorentzLive
    /\ LorentzForceModule' = LorentzRender([LorentzForceModule.in EXCEPT !.bx = x])
    /\ UNCHANGED LorentzOthers

LorentzSetBy(x) ==
    /\ LorentzLive
    /\ LorentzForceModule' = LorentzRender([LorentzForceModule.in EXCEPT !.by = x])
    /\ UNCHANGED LorentzOthers

LorentzSetBz(x) ==
    /\ LorentzLive
    /\ LorentzForceModule' = LorentzRender([LorentzForceModule.in EXCEPT !.bz = x])
    /\ UNCHANGED LorentzOthers

LorentzNext ==
    \/ \E k \in DOMAIN presets : SelectPreset(k)
    \/ \E x \in -MaxV..MaxV : SetVx(x)
    \/ \E x \in OffAxis : SetVy(x)
    \/ \E x \in OffAxis : SetVz(x)
    \/ \E x \in OffAxis : SetEx(x)
    \/ \E x \in 0..MaxE : SetEy(x)
    \/ \E x \in OffAxis : SetEz(x)
    \/ \E x \in OffAxis : LorentzSetBx(x)
    \/ \E x \in OffAxis : LorentzSetBy(x)
    \/ \E x \in 0..MaxBField : LorentzSetBz(x)

SpecLorentz == LorentzInit /\ [][LorentzNext]_vars

(* Claims about the cyclotron radius                                       *)

\* C9: whenever the magnetic field magnitude is 0, the cyclotron radius is
\* not a finite number and its card shows the infinity sign, whatever the
\* charge, the mass and the velocity.
C9_NoCyclotronRadiusWithoutField ==
    (LorentzForceModule.mounted /\ LorentzForceModule.results.bMag = RootOf(RZero)) =>
        /\ ~IsFinite(LorentzForceModule.results.cyclotronRadius)
        /\ LorentzForceModule.view # TypeError
        /\ LorentzForceModule.view.cyclotronRadius = Label("infinity")

\* An alpha particle moving with no magnetic field.
C9_Witness ==
    /\ LorentzForceModule.mounted
    /\ LorentzForceModule.in.q = 2
    /\ LorentzForceModule.in.vx # 0
    /\ LorentzForceModule.in.bx = 0
    /\ LorentzForceModule.in.by = 0
    /\ LorentzForceModule.in.bz = 0
    /\ LorentzForceModule.view.cyclotronRadius = Label("infinity")

---------------------------------------------------------------------------
(* VectorOpsModule (src/web/src/modules/AntennaGainModule.tsx)             *)
(*                                                                         *)
(* A real number sign * sqrt(sq) is kept as the pair of its sign and its   *)
(* square.  The engine's vector_add, vector_cross and vector_project       *)
(* (em_wasm) are the operations the component's text names: A + B, A x B   *)
(* and proj_B(A) = (A.B / |B|^2) B, the last one 0 / 0 = NaN in every      *)
(* component when B is the zero vector.                                    *)

MaxVec == 1

Sgn(k) == IF k > 0 THEN 1 ELSE IF k < 0 THEN -1 ELSE 0
SignedRoot(sign, sq) == [sign |-> sign, sq |-> sq]

vector_add(ax, ay, az, bx, by, bz) == [x |-> ax + bx, y |-> ay + by, z |-> az + bz]

vector_cross(ax, ay, az, bx, by, bz) ==
    LET t == CrossProduct(<< ax, ay, az >>, << bx, by, bz >>)
    IN  [x |-> t[1], y |-> t[2], z |-> t[3]]

vector_project(ax, ay, az, bx, by, bz) ==
    LET dot == ax * bx + ay * by + az * bz
        bSq == SumSq(<< bx, by, bz >>)
    IN  IF bSq = 0 THEN [x |-> NaN, y |-> NaN, z |-> NaN]
        ELSE [x |-> Rat(dot * bx, bSq), y |-> Rat(dot * by, bSq), z |-> Rat(dot * bz, bSq)]

\* dot / (magA * magB): 0 / 0 = NaN, k / 0 = Infinity with the sign of k
DotOverMagnitudes(dot, magA, magB) ==
    LET denominator == RootMul(magA, magB)
    IN  IF denominator.sq.n = 0
        THEN IF dot = 0 THEN NaN ELSE SignedRoot(Sgn(dot), Infinity)
        ELSE SignedRoot(Sgn(dot), RDiv(Rat(dot * dot, 1), denominator.sq))

\* Math.max(-1, x) and Math.min(1, x): NaN if x is NaN
MathMaxMinusOne(x) ==
    IF x = NaN THEN NaN
    ELSE IF x.sign = -1 /\ (x.sq = Infinity \/ RLt(ROne, x.sq)) THEN SignedRoot(-1, ROne)
    ELSE x
MathMinOne(x) ==
    IF x = NaN THEN NaN
    ELSE IF x.sign = 1 /\ (x.sq = Infinity \/ RLt(ROne, x.sq)) THEN SignedRoot(1, ROne)
    ELSE x

\* Math.acos(x): NaN if x is NaN or outside [-1, 1], otherwise the angle
\* in [0, pi] whose cosine is x
MathAcos(x) ==
    IF x = NaN THEN NaN
    ELSE IF x.sq = Infinity \/ RLt(ROne, x.sq) THEN NaN
    ELSE [acos |-> x]

\* the argument handed to Math.acos
AcosArgument(dot, magA, magB) ==
    MathMinOne(MathMaxMinusOne(DotOverMagnitudes(dot, magA, magB)))

\* magA > 0 ? { x: ax / magA, ... } : { x: 0, y: 0, z: 0 }
UnitA(ax, ay, az, magA) ==
    IF RootLt(RootOf(RZero), magA)
    THEN [x |-> SignedRoot(Sgn(ax), RDiv(Rat(ax * ax, 1), magA.sq)),
          y |-> SignedRoot(Sgn(ay), RDiv(Rat(ay * ay, 1), magA.sq)),
          z |-> SignedRoot(Sgn(az), RDiv(Rat(az * az, 1), magA.sq))]
    ELSE [x |-> 0, y |-> 0, z |-> 0]

\* the results useMemo; none of the engine calls throws, so the catch
\* branch (results = null) is not taken
VectorResults(in) ==
    LET cross == vector_cross(in.ax, in.ay, in.az, in.bx, in.by, in.bz)
        dot == in.ax * in.bx + in.ay * in.by + in.az * in.bz
        magA == Magnitude(<< in.ax, in.ay, in.az >>)
        magB == Magnitude(<< in.bx, in.by, in.bz >>)
    IN  [add |-> vector_add(in.ax, in.ay, in.az, in.bx, in.by, in.bz),
         cross |-> cross,
         proj |-> vector_project(in.ax, in.ay, in.az, in.bx, in.by, in.bz),
         dot |-> dot,
         magA |-> magA,
         magB |-> magB,
         magCross |-> Magnitude(<< cross.x, cross.y, cross.z >>),
         angle |-> MathAcos(AcosArgument(dot, magA, magB)),
         sub |-> [x |-> in.ax - in.bx, y |-> in.ay - in.by, z |-> in.az - in.bz],
         unitA |-> UnitA(in.ax, in.ay, in.az, magA)]

\* (results.angle * 180 / Math.PI).toFixed(2): NaN stays NaN and is printed
AngleCell(angle) ==
    IF angle = NaN THEN ToFixed(NaN) ELSE ToFixed([degrees |-> angle])

\* the results table, rendered when results is not null
VectorView(results) ==
    IF results = null THEN Rendered([table |-> Label("none")])
    ELSE Rendered(
        [magA |-> ToFixed(results.magA),
         magB |-> ToFixed(results.magB),
         unitA |-> ToFixed(results.unitA),
         add |-> ToFixed(results.add),
         sub |-> ToFixed(results.sub),
         dot |-> ToFixed(Rat(results.dot, 1)),
         cross |-> ToFixed(results.cross),
         magCross |-> ToFixed(results.magCross),
         proj |-> ToFixed(results.proj),
         angle |-> AngleCell(results.angle)])

VectorRender(in) ==
    LET results == VectorResults(in)
    IN  [mounted |-> TRUE, in |-> in, results |-> results, view |-> VectorView(results)]

\* useState defaults: A = (1, 2, 3), B = (4, 5, 6)
VectorInit ==
    /\ VectorOpsModule =
          VectorRender([ax |-> 1, ay |-> 2, az |-> 3, bx |-> 4, by |-> 5, bz |-> 6])
    /\ LorentzForceModule = Unmounted
    /\ WaveguideModesModule = Unmounted
    /\ SnellModule = Unmounted
    /\ FresnelModule = Unmounted
    /\ MediumPropertiesModule = Unmounted
    /\ SkinDepthModule = Unmounted
    /\ PowerModule = Unmounted
    /\ BarcodeBrief = Unmounted
    /\ ResonanceModule = Unmounted
    /\ ImpedanceModule = Unmounted
    /\ SolarCellBrief = Unmounted
    /\ HelmholtzModule = Unmounted
    /\ TLineTransientModule = Unmounted
    /\ RCCircuitModule = Unmounted
    /\ wasm = Unmounted
    /\ App = Unmounted
    /\ MicrostripModule = Unmounted
    /\ ElectrostaticsModule = Unmounted

VectorLive == VectorOpsModule.mounted /\ ~Crashed(VectorOpsModule)
VectorOthers == << LorentzForceModule, WaveguideModesModule, SnellModule, FresnelModule,
                   MediumPropertiesModule, SkinDepthModule,
                   PowerModule,
                   BarcodeBrief,
                   ResonanceModule,
                   ImpedanceModule,
                   SolarCellBrief,
                   HelmholtzModule,
                   TLineTransientModule,
                   RCCircuitModule,
                   wasm,
                   App,
                   MicrostripModule,
                   ElectrostaticsModule >>

SetAx(v) ==
    /\ VectorLive
    /\ VectorOpsModule' = VectorRender([VectorOpsModule.in EXCEPT !.ax = v])
    /\ UNCHANGED VectorOthers

SetAy(v) ==
    /\ VectorLive
    /\ VectorOpsModule' = VectorRender([VectorOpsModule.in EXCEPT !.ay = v])
    /\ UNCHANGED VectorOthers

SetAz(v) ==
    /\ VectorLive
    /\ VectorOpsModule' = VectorRender([VectorOpsModule.in EXCEPT !.az = v])
    /\ UNCHANGED VectorOthers

SetBx(v) ==
    /\ VectorLive
    /\ VectorOpsModule' = VectorRender([VectorOpsModule.in EXCEPT !.bx = v])
    /\ UNCHANGED VectorOthers

SetBy(v) ==
    /\ VectorLive
    /\ VectorOpsModule' = VectorRender([VectorOpsModule.in EXCEPT !.by = v])
    /\ UNCHANGED VectorOthers

SetBz(v) ==
    /\ VectorLive
    /\ VectorOpsModule' = VectorRender([VectorOpsModule.in EXCEPT !.bz = v])
    /\ UNCHANGED VectorOthers

VectorNext ==
    \/ \E v \in -MaxVec..MaxVec : SetAx(v)
    \/ \E v \in -MaxVec..MaxVec : SetAy(v)
    \/ \E v \in -MaxVec..MaxVec : SetAz(v)
    \/ \E v \in -MaxVec..MaxVec : SetBx(v)
    \/ \E v \in -MaxVec..MaxVec : SetBy(v)
    \/ \E v \in -MaxVec..MaxVec : SetBz(v)

SpecVectorOps == VectorInit /\ [][VectorNext]_vars

(* Claims about the angle between A and B                                  *)

InUnitInterval(x) == x # NaN /\ x.sq # Infinity /\ RLe(x.sq, ROne)

\* C10: for all vectors A and B, the zero vector included, the argument
\* handed to acos lies in [-1, 1] and the angle that is computed and shown
\* is a number in [0, pi], never NaN.
C10_AngleNeverNaN ==
    (VectorOpsModule.mounted /\ VectorOpsModule.results # null) =>
        /\ InUnitInterval(AcosArgument(VectorOpsModule.results.dot,
                                       VectorOpsModule.results.magA,
                                       VectorOpsModule.results.magB))
        /\ VectorOpsModule.results.angle # NaN
        /\ VectorOpsModule.view.angle # ToFixed(NaN)

---------------------------------------------------------------------------
(* PowerModule (src/web/src/modules/PowerModule.tsx)                       *)
(*                                                                         *)
(* e0 in tenths of V/m and gammaMag in hundredths (the steps of their      *)
(* sliders), eta in ohms, powerVal in tenths (the step of its input).      *)
(* The engine's power_calculations and unit_conversions (em_wasm) return   *)
(* numbers that are not evaluated; the return loss -20 log10 |Gamma| is    *)
(* infinite at |Gamma| = 0.                                                *)

MaxPowerE0 == 1
MaxEta == 1
MaxGammaMag == 99
MaxPowerVal == 1

power_calculations(e0, eta, gammaMag) ==
    [poynting_avg |-> EngineNumber("poynting_avg"),
     power_delivered |-> EngineNumber("power_delivered"),
     power_reflected |-> EngineNumber("power_reflected"),
     return_loss_db |-> IF gammaMag.n = 0 THEN Infinity ELSE EngineNumber("return_loss_db"),
     mismatch_loss_db |-> EngineNumber("mismatch_loss_db"),
     gamma_mag |-> gammaMag]

unit_conversions(powerVal, powerUnit) ==
    [watts |-> EngineNumber("watts"), dbm |-> EngineNumber("dbm"),
     dbw |-> EngineNumber("dbw"), mw |-> EngineNumber("mw"), uw |-> EngineNumber("uw")]

\* x / y of two rationals in JavaScript: a zero divisor gives NaN or Infinity
JSDivide(x, y) ==
    IF y.n = 0 THEN (IF x.n = 0 THEN NaN ELSE Infinity) ELSE RDiv(x, y)

VSWRPastSliderMax(gammaMag) ==
    JSDivide(RAdd(ROne, Rat(gammaMag + 1, 100)), RSub(ROne, Rat(gammaMag + 1, 100)))
\* (1 + gammaMag) / (1 - gammaMag)
VSWR(gammaMag) ==
    JSDivide(RAdd(ROne, Rat(gammaMag, 100)), RSub(ROne, Rat(gammaMag, 100)))

\* x / y in JavaScript.  undefined and NaN give NaN and null counts as 0;
\* the quotient of two engine numbers is not evaluated and is kept as the
\* term it stands for.
JSOver(x, y) ==
    IF x = undefined \/ y = undefined \/ x = NaN \/ y = NaN THEN NaN
    ELSE IF x = null /\ y = null THEN NaN
    ELSE [quotient |-> << IF x = null THEN RZero ELSE x, IF y = null THEN RZero ELSE y >>]
\* x < k of an engine number, not evaluated
JSLess(x, k) == [less |-> << x, k >>]

\* power.poynting_avg < 1 ? (power.poynting_avg * 1e3).toFixed(3) : power.poynting_avg.toFixed(3)
\* null < 1 holds (null counts as 0); undefined < 1 and NaN < 1 do not,
\* nor does Infinity < 1.
PoyntingAvgCard(poynting_avg) ==
    IF poynting_avg = null THEN ToFixed(JSTimes(poynting_avg, 1000))
    ELSE IF poynting_avg = undefined \/ poynting_avg = NaN \/ poynting_avg = Infinity
    THEN ToFixed(poynting_avg)
    ELSE [if |-> JSLess(poynting_avg, 1),
          then |-> ToFixed(JSTimes(poynting_avg, 1000)),
          else |-> ToFixed(poynting_avg)]

\* the result cards, rendered when power (units) is not null.  S_avg is
\* shown in mW/m^2 when below 1 and in W/m^2 otherwise; the two power cards
\* show power / poynting_avg * 100, a percentage.
PowerView(in, power, units) ==
    Rendered(
        [poynting_avg |-> PoyntingAvgCard(power.poynting_avg),
         power_delivered |->
             ToFixed(JSTimes(JSOver(power.power_delivered, power.poynting_avg), 100)),
         power_reflected |->
             ToFixed(JSTimes(JSOver(power.power_reflected, power.poynting_avg), 100)),
         return_loss |-> IF isFinite(power.return_loss_db)
                         THEN ToFixed(power.return_loss_db) ELSE Label("infinity dB"),
         mismatch_loss |-> ToFixed(power.mismatch_loss_db),
         vswr |-> ToFixed(VSWR(in.gammaMag)),
         watts |-> ToFixed(units.watts),
         dbm |-> ToFixed(units.dbm),
         dbw |-> ToFixed(units.dbw),
         mw |-> ToFixed(units.mw),
         uw |-> ToFixed(units.uw)])

PowerRender(in) ==
    LET power == power_calculations(Rat(in.e0, 10), Rat(in.eta, 1), Rat(in.gammaMag, 100))
        units == unit_conversions(Rat(in.powerVal, 10), in.powerUnit)
    IN  [mounted |-> TRUE, in |-> in, power |-> power, units |-> units,
         view |-> PowerView(in, power, units)]

\* useState defaults: 10.0 V/m, 377 ohm, 0.2, 0, 'dBm'
PowerInit ==
    /\ PowerModule = PowerRender([e0 |-> 100, eta |-> 377, gammaMag |-> 20,
                                  powerVal |-> 0, powerUnit |-> "dBm"])
    /\ WaveguideModesModule = Unmounted
    /\ SnellModule = Unmounted
    /\ FresnelModule = Unmounted
    /\ MediumPropertiesModule = Unmounted
    /\ SkinDepthModule = Unmounted
    /\ LorentzForceModule = Unmounted
    /\ VectorOpsModule = Unmounted
    /\ BarcodeBrief = Unmounted
    /\ ResonanceModule = Unmounted
    /\ ImpedanceModule = Unmounted
    /\ SolarCellBrief = Unmounted
    /\ HelmholtzModule = Unmounted
    /\ TLineTransientModule = Unmounted
    /\ RCCircuitModule = Unmounted
    /\ wasm = Unmounted
    /\ App = Unmounted
    /\ MicrostripModule = Unmounted
    /\ ElectrostaticsModule = Unmounted

\* the values each control can be given: the sliders' and the select's
PowerControls ==
    [e0 |-> 1..MaxPowerE0, eta |-> 1..MaxEta, gammaMag |-> 0..MaxGammaMag,
     powerVal |-> 0..MaxPowerVal, powerUnit |-> {"W", "dBm", "dBW"}]

\* onChange of the control of one input: setE0, setEta, setGammaMag,
\* setPowerVal or setPowerUnit
PowerOnChange(field, v) ==
    /\ PowerModule.mounted /\ ~Crashed(PowerModule)
    /\ PowerModule' = PowerRender([PowerModule.in EXCEPT ![field] = v])
    /\ UNCHANGED << WaveguideModesModule, SnellModule, FresnelModule,
                    MediumPropertiesModule, SkinDepthModule,
                    LorentzForceModule, VectorOpsModule,
                    BarcodeBrief,
                    ResonanceModule,
                    ImpedanceModule,
                    SolarCellBrief,
                    HelmholtzModule,
                    TLineTransientModule,
                    RCCircuitModule,
                    wasm,
                    App,
                    MicrostripModule,
                    ElectrostaticsModule >>

PowerNext == \E field \in DOMAIN PowerControls : \E v \in PowerControls[field] : PowerOnChange(field, v)

SpecPower == PowerInit /\ [][PowerNext]_vars

(* Claims about the VSWR card                                              *)

\* C11: for every |Gamma| the slider can give, |Gamma| is strictly below 1
\* when the VSWR (1 + |Gamma|) / (1 - |Gamma|) is evaluated, so the division
\* is not by zero and the VSWR shown is a finite number, at least 1.
C11_VswrFiniteAtLeastOne ==
    (PowerModule.mounted /\ PowerModule.power # null) =>
        /\ PowerModule.in.gammaMag < 100
        /\ PowerModule.view # TypeError
        /\ IsRat(PowerModule.view.vswr.number)
        /\ RLe(ROne, PowerModule.view.vswr.number)

\* The slider at its maximum 0.99: VSWR = 199.
C11_Witness ==
    /\ PowerModule.mounted
    /\ PowerModule.in.gammaMag = 99
    /\ PowerModule.view.vswr = ToFixed(Rat(199, 1))

---------------------------------------------------------------------------
(* BarcodeBrief (src/unnamed/part_018)                                     *)
(*                                                                         *)
(* The bars are computed once per mount (useMemo with no dependencies)     *)
(* from 84 draws of Math.random(): draw i gives Math.floor(random * 3) in  *)
(* 0..2.  The stream of draws of a mount is any function of the draw       *)
(* number into 0..2 (RandomStreams), whatever the draws of the mounts      *)
(* before it were.  The streams are not enumerated: the component's state  *)
(* holds the number of its mount, and its bars are the term that stands    *)
(* for BarcodeBars of the draws of that mount.  BarcodeBars computes the   *)
(* bars from a given stream.                                               *)

MaxScanPos == 10
MaxMounts == 3
DataBars == 42

\* What the 2 * 42 calls of Math.floor(Math.random() * 3) of one mount can
\* return.
RandomStreams == [1..(2 * DataBars) -> 0..2]

\* The draws of mount number k, which the model does not know.
DrawsOfMount(k) == [random |-> "Math.floor(Math.random() * 3)", mount |-> k]

DigitsSet == {"5901234123457", "4006381333931", ""}

\* the bars useMemo: start guard, 42 data bars, centre guard, 42 data bars,
\* end guard, each bar at the running x
BarcodeBars(stream) ==
    LET moduleWidth == 2
        guard3 == << TRUE, FALSE, TRUE >>
        guard5 == << FALSE, TRUE, FALSE, TRUE, FALSE >>
        dataBlack == [i \in 1..DataBars |-> (i - 1) % 2 = 0]
        black == guard3 \o dataBlack \o guard5 \o dataBlack \o guard3
        w == [i \in 1..3 |-> moduleWidth]
             \o [i \in 1..DataBars |-> moduleWidth * (1 + stream[i])]
             \o [i \in 1..5 |-> moduleWidth]
             \o [i \in 1..DataBars |-> moduleWidth * (1 + stream[DataBars + i])]
             \o [i \in 1..3 |-> moduleWidth]
        x[i \in 0..Len(w)] == IF i = 0 THEN 0 ELSE x[i - 1] + w[i]
    IN  [bars |-> [i \in 1..Len(w) |-> [x |-> x[i - 1], w |-> w[i], black |-> black[i]]],
         totalWidth |-> x[Len(w)]]

\* the svg: one rect per black bar, the scan line and the digits
BarcodeView(digits, scanPos, bars) ==
    [rects |-> { << b.x, b.w >> : b \in { bars.bars[i] : i \in { j \in DOMAIN bars.bars : bars.bars[j].black } } },
     scanLine |-> Rat(bars.totalWidth * scanPos, 100),
     digits |-> digits]

\* The memoised bars of a mount: BarcodeBars of its draws.
MemoisedBars(mount) == [useMemo |-> "BarcodeBars", stream |-> DrawsOfMount(mount)]

\* bars is the memoised value: a render with new inputs keeps it
BarcodeRender(digits, scanPos, mount) ==
    [mounted |-> TRUE, digits |-> digits, scanPos |-> scanPos, mount |-> mount,
     bars |-> MemoisedBars(mount)]

\* mounting: useState defaults '5901234123457' and 50, bars from fresh draws
BarcodeMount(mount) == BarcodeRender("5901234123457", 50, mount)

BarcodeInit ==
    /\ BarcodeBrief = BarcodeMount(1)
    /\ WaveguideModesModule = Unmounted
    /\ SnellModule = Unmounted
    /\ FresnelModule = Unmounted
    /\ MediumPropertiesModule = Unmounted
    /\ SkinDepthModule = Unmounted
    /\ LorentzForceModule = Unmounted
    /\ VectorOpsModule = Unmounted
    /\ PowerModule = Unmounted
    /\ ResonanceModule = Unmounted
    /\ ImpedanceModule = Unmounted
    /\ SolarCellBrief = Unmounted
    /\ HelmholtzModule = Unmounted
    /\ TLineTransientModule = Unmounted
    /\ RCCircuitModule = Unmounted
    /\ wasm = Unmounted
    /\ App = Unmounted
    /\ MicrostripModule = Unmounted
    /\ ElectrostaticsModule = Unmounted

BarcodeOthers == << WaveguideModesModule, SnellModule, FresnelModule,
                    MediumPropertiesModule, SkinDepthModule,
                    LorentzForceModule, VectorOpsModule, PowerModule,
                    ResonanceModule,
                    ImpedanceModule,
                    SolarCellBrief,
                    HelmholtzModule,
                    TLineTransientModule,
                    RCCircuitModule,
                    wasm,
                    App,
                    MicrostripModule,
                    ElectrostaticsModule >>

SetDigits(v) ==
    /\ BarcodeBrief.mounted
    /\ BarcodeBrief' = BarcodeRender(v, BarcodeBrief.scanPos, BarcodeBrief.mount)
    /\ UNCHANGED BarcodeOthers

SetScanPos(v) ==
    /\ BarcodeBrief.mounted
    /\ BarcodeBrief' = BarcodeRender(BarcodeBrief.digits, v, BarcodeBrief.mount)
    /\ UNCHANGED BarcodeOthers

\* The user selects another module and comes back: the component is
\* unmounted and mounted again, with its initial state and new draws.
BarcodeRemount ==
    /\ BarcodeBrief.mounted
    /\ BarcodeBrief.mount < MaxMounts
    /\ BarcodeBrief' = BarcodeMount(BarcodeBrief.mount + 1)
    /\ UNCHANGED BarcodeOthers

BarcodeNext ==
    \/ \E v \in DigitsSet : SetDigits(v)
    \/ \E v \in 0..MaxScanPos : SetScanPos(v)
    \/ BarcodeRemount

SpecBarcode == BarcodeInit /\ [][BarcodeNext]_vars

(* Claims about results being functions of the inputs                      *)

\* Streams the draws of a mount are given in the check below: a draw that
\* is the same for every bar, and draws that change from bar to bar.
ExampleStreams ==
    { [i \in 1..(2 * DataBars) |-> (a * i + b) % 3] : a \in 0..2, b \in 0..2 }

\* C12: a computed result depends on the current inputs only: whenever the
\* bar-code view is evaluated again with the same inputs (digits and scan
\* position), also after it was unmounted and mounted again, the bars it
\* computes and draws are the same as before, whatever Math.random returned
\* (two mounts draw independently, one mount has one stream of draws).
C12_SameInputsSameBars ==
    [][(BarcodeBrief.mounted /\ BarcodeBrief'.mounted
          /\ BarcodeBrief'.digits = BarcodeBrief.digits
          /\ BarcodeBrief'.scanPos = BarcodeBrief.scanPos)
       => \A before \in ExampleStreams, after \in ExampleStreams :
              (/\ before \in RandomStreams /\ after \in RandomStreams
               /\ BarcodeBrief'.bars = BarcodeBrief.bars => after = before)
                  => BarcodeView(BarcodeBrief'.digits, BarcodeBrief'.scanPos,
                                 BarcodeBars(after))
                         = BarcodeView(BarcodeBrief.digits, BarcodeBrief.scanPos,
                                       BarcodeBars(before))]_vars

---------------------------------------------------------------------------
(* Sampled curves.  A sample whose value needs a transcendental function   *)
(* is kept as the term it stands for: the name of the quantity and the     *)
(* number of the loop iteration that pushed it.                            *)

Sample(quantity, i) == [quantity |-> quantity, i |-> i]
\* xs.map(f): one element per element of xs
Map(xs, f) == [k \in DOMAIN xs |-> [f |-> f, of |-> xs[k]]]
NoSamples == << >>

---------------------------------------------------------------------------
(* ResonanceModule (src/web/src/modules/ResonanceModule.tsx)               *)
(* inductance in tenths of uH, capacitance in pF, resistance in ohms (the  *)
(* units and steps of the sliders).  The loop of the freqResponse useMemo  *)
(* is run one iteration per step: pc is "sweep" while it runs inside the   *)
(* render and "done" once freqResponse is returned and the plots are drawn.*)

ResonanceN == 500

ResonanceBodyPhaseSeriesOnly(acc, i, circuit) ==
    IF circuit = "series"
    THEN [freqs |-> Append(acc.freqs, Sample("f", i)),
          magnitudes |-> Append(acc.magnitudes, Sample("1 / zMag", i)),
          phases |-> Append(acc.phases, Sample("-atan2(x, R)", i))]
    ELSE [freqs |-> Append(acc.freqs, Sample("f", i)),
          magnitudes |-> Append(acc.magnitudes, Sample("1 / yMag", i)),
          phases |-> acc.phases]
\* one iteration of the loop: freqs.push, then magnitudes.push and
\* phases.push in the branch of the circuit
ResonanceBody(acc, i, circuit) ==
    IF circuit = "series"
    THEN [freqs |-> Append(acc.freqs, Sample("f", i)),
          magnitudes |-> Append(acc.magnitudes, Sample("1 / zMag", i)),
          phases |-> Append(acc.phases, Sample("-atan2(x, R)", i))]
    ELSE [freqs |-> Append(acc.freqs, Sample("f", i)),
          magnitudes |-> Append(acc.magnitudes, Sample("1 / yMag", i)),
          phases |-> Append(acc.phases, Sample("-atan2(b, 1 / R)", i))]

\* what the useMemo returns after the loop: the magnitudes normalised
FreqResponse(acc) ==
    [freqs |-> acc.freqs,
     magnitudes |-> Map(acc.magnitudes, "m / maxM"),
     phases |-> acc.phases]

\* the two plots' traces
ResonancePlots(freqResponse) ==
    [magnitude |-> [x |-> Map(freqResponse.freqs, "f / 1e6 or f / 1e3"),
                    y |-> Map(freqResponse.magnitudes, "20 log10")],
     phase |-> [x |-> Map(freqResponse.freqs, "f / 1e6 or f / 1e3"),
                y |-> freqResponse.phases]]

\* entering the freqResponse useMemo with the inputs in
ResonanceStart(in) ==
    [mounted |-> TRUE, in |-> in, pc |-> "sweep", i |-> 0,
     acc |-> [freqs |-> NoSamples, magnitudes |-> NoSamples, phases |-> NoSamples],
     freqResponse |-> null, view |-> null]

\* useState defaults: 1e-3 H, 1e-9 F, 50 ohm, 'series'
ResonanceInit ==
    /\ ResonanceModule = ResonanceStart([inductance |-> 10000, capacitance |-> 1000,
                                         resistance |-> 50, circuit |-> "series"])
    /\ ImpedanceModule = Unmounted
    /\ SolarCellBrief = Unmounted
    /\ WaveguideModesModule = Unmounted
    /\ SnellModule = Unmounted
    /\ FresnelModule = Unmounted
    /\ MediumPropertiesModule = Unmounted
    /\ SkinDepthModule = Unmounted
    /\ LorentzForceModule = Unmounted
    /\ VectorOpsModule = Unmounted
    /\ PowerModule = Unmounted
    /\ BarcodeBrief = Unmounted
    /\ HelmholtzModule = Unmounted
    /\ TLineTransientModule = Unmounted
    /\ RCCircuitModule = Unmounted
    /\ wasm = Unmounted
    /\ App = Unmounted
    /\ MicrostripModule = Unmounted
    /\ ElectrostaticsModule = Unmounted

ResonanceOthers == << ImpedanceModule, SolarCellBrief, WaveguideModesModule, SnellModule,
                      FresnelModule, MediumPropertiesModule, SkinDepthModule,
                      LorentzForceModule, VectorOpsModule, PowerModule, BarcodeBrief,
                      HelmholtzModule,
                      TLineTransientModule,
                      RCCircuitModule,
                      wasm,
                      App,
                      MicrostripModule,
                      ElectrostaticsModule >>

\* the values tried: both circuits, and the lower end of each slider
ResonanceControls ==
    [inductance |-> {1}, capacitance |-> {1}, resistance |-> {1},
     circuit |-> {"series", "parallel"}]

\* onChange of one control: setCircuit, setInductance, setCapacitance or
\* setResistance; the render that follows enters the loop
ResonanceOnChange(field, v) ==
    /\ ResonanceModule.mounted
    /\ ResonanceModule.pc = "done"
    /\ ResonanceModule' = ResonanceStart([ResonanceModule.in EXCEPT ![field] = v])
    /\ UNCHANGED ResonanceOthers

\* One pass through for (let i = 0; i < n; i++); when the loop is left the
\* response is returned and plotted.
ResonanceSweepStep ==
    /\ ResonanceModule.mounted
    /\ ResonanceModule.pc = "sweep"
    /\ LET s == ResonanceModule
       IN  IF s.i < ResonanceN
           THEN ResonanceModule' =
                    [s EXCEPT !.acc = ResonanceBody(s.acc, s.i, s.in.circuit), !.i = s.i + 1]
           ELSE ResonanceModule' =
                    [s EXCEPT !.pc = "done",
                              !.freqResponse = FreqResponse(s.acc),
                              !.view = ResonancePlots(FreqResponse(s.acc))]
    /\ UNCHANGED ResonanceOthers

---------------------------------------------------------------------------
(* ImpedanceModule (src/web/src/modules/ImpedanceModule.tsx)               *)
(* The engine's reflection_coefficient and input_impedance_lossless        *)
(* (em_wasm) return complex numbers that are not evaluated.  The loop of   *)
(* the sweep useMemo is run one iteration per step.                        *)

ImpedanceN == 200

reflection_coefficient(zlRe, zlIm, z0) ==
    [magnitude |-> EngineNumber("magnitude"), phase_deg |-> EngineNumber("phase_deg"),
     vswr |-> EngineNumber("vswr"), re |-> EngineNumber("re"), im |-> EngineNumber("im")]

input_impedance_lossless(zlRe, zlIm, z0, bl) ==
    [re |-> [quantity |-> "zin.re", bl |-> bl], im |-> [quantity |-> "zin.im", bl |-> bl]]

\* one iteration of the loop: betaLs.push, zinRe.push, zinIm.push; bl is
\* kept in units of 2 pi
ImpedanceBody(acc, i, N, in) ==
    LET bl == Rat(i, N)
        zin == input_impedance_lossless(in.zlRe, in.zlIm, in.z0, bl)
    IN  [betaLs |-> Append(acc.betaLs, bl),
         zinRe |-> Append(acc.zinRe, zin.re),
         zinIm |-> Append(acc.zinIm, zin.im)]

\* entering the sweep useMemo with the inputs in
ImpedanceStart(in) ==
    [mounted |-> TRUE, in |-> in,
     gamma |-> reflection_coefficient(in.zlRe, in.zlIm, in.z0),
     pc |-> "sweep", i |-> 0,
     acc |-> [betaLs |-> NoSamples, zinRe |-> NoSamples, zinIm |-> NoSamples],
     sweep |-> null]

\* useState defaults: 75, 25, 50
ImpedanceInit ==
    /\ ImpedanceModule = ImpedanceStart([zlRe |-> 75, zlIm |-> 25, z0 |-> 50])
    /\ ResonanceModule = Unmounted
    /\ SolarCellBrief = Unmounted
    /\ WaveguideModesModule = Unmounted
    /\ SnellModule = Unmounted
    /\ FresnelModule = Unmounted
    /\ MediumPropertiesModule = Unmounted
    /\ SkinDepthModule = Unmounted
    /\ LorentzForceModule = Unmounted
    /\ VectorOpsModule = Unmounted
    /\ PowerModule = Unmounted
    /\ BarcodeBrief = Unmounted
    /\ HelmholtzModule = Unmounted
    /\ TLineTransientModule = Unmounted
    /\ RCCircuitModule = Unmounted
    /\ wasm = Unmounted
    /\ App = Unmounted
    /\ MicrostripModule = Unmounted
    /\ ElectrostaticsModule = Unmounted

ImpedanceOthers == << ResonanceModule, SolarCellBrief, WaveguideModesModule, SnellModule,
                      FresnelModule, MediumPropertiesModule, SkinDepthModule,
                      LorentzForceModule, VectorOpsModule, PowerModule, BarcodeBrief,
                      HelmholtzModule,
                      TLineTransientModule,
                      RCCircuitModule,
                      wasm,
                      App,
                      MicrostripModule,
                      ElectrostaticsModule >>

\* the values tried: a short, a reactive load and another line impedance
ImpedanceControls == [zlRe |-> {0}, zlIm |-> {-25}, z0 |-> {75}]

\* onChange of one number input: setZlRe, setZlIm or setZ0
ImpedanceOnChange(field, v) ==
    /\ ImpedanceModule.mounted
    /\ ImpedanceModule.pc = "done"
    /\ ImpedanceModule' = ImpedanceStart([ImpedanceModule.in EXCEPT ![field] = v])
    /\ UNCHANGED ImpedanceOthers

\* One pass through for (let i = 0; i <= N; i++); when the loop is left the
\* sweep is returned.
ImpedanceSweepStep ==
    /\ ImpedanceModule.mounted
    /\ ImpedanceModule.pc = "sweep"
    /\ LET s == ImpedanceModule
       IN  IF s.i <= ImpedanceN
           THEN ImpedanceModule' =
                    [s EXCEPT !.acc = ImpedanceBody(s.acc, s.i, ImpedanceN, s.in),
                              !.i = s.i + 1]
           ELSE ImpedanceModule' = [s EXCEPT !.pc = "done", !.sweep = s.acc]
    /\ UNCHANGED ImpedanceOthers

---------------------------------------------------------------------------
(* SolarCellBrief (src/unnamed/part_018)                                   *)
(*                                                                         *)
(* isc in tenths of A, voc in hundredths of V, n in tenths (the steps of   *)
(* the sliders), irradiance in W/m^2, temp in degrees C.  The I-V loop of  *)
(* the ivData useMemo is run one iteration per step: pc is "sweep" while   *)
(* the loop runs inside the render and "done" once ivData is returned.     *)
(* The diode current needs exp and is kept as a term; its sign is that of  *)
(* vocAdj - vi, because i0 = iscAdj / (exp(vocAdj / (n vt)) - 1) with      *)
(* iscAdj, vocAdj and n vt positive.  The bookkeeping of the maximum power *)
(* point (pmax, vmp, imp) compares such terms and is left out: it does not *)
(* enter the loop's condition or its lists.                                *)

SolarSteps == 200

\* voc - 0.002 * (temp - 25)
VocAdj(in) == Rat(5 * in.voc - (in.temp - 25), 500)
\* isc * irradiance / 1000
IscAdj(in) == Rat(in.isc * in.irradiance, 10000)

SolarStepHalved(vocAdj) == RDiv(vocAdj, Rat(2 * SolarSteps, 1))
\* vi += vocAdj / 200
SolarStep(vocAdj) == RDiv(vocAdj, Rat(SolarSteps, 1))

\* The outcomes of current < 0, for current = iscAdj - i0 * (exp(vi / (n vt)) - 1)
\* and i0 = iscAdj / (exp(vocAdj / (n vt)) - 1): the exponential is
\* increasing, so for positive iscAdj and vocAdj the current is negative past
\* vocAdj and positive before it.  At vi = vocAdj the current is zero up to
\* the rounding of the floating-point operations, of either sign.
CurrentIsNegative(vi, vocAdj, iscAdj) ==
    IF vocAdj.n > 0 /\ iscAdj.n > 0
    THEN IF vi = vocAdj THEN BOOLEAN ELSE {RLt(vocAdj, vi)}
    ELSE {FALSE}

\* vocAdj * 1.05
SolarLimit(vocAdj) == RMul(vocAdj, Rat(105, 100))

\* the loop condition vi <= vocAdj * 1.05
SolarLoopCondition(vi, limit) == RLe(vi, limit)

\* entering the ivData useMemo with the inputs in
SolarStart(in) ==
    [mounted |-> TRUE, in |-> in, pc |-> "sweep", vi |-> RZero,
     vs |-> NoSamples, is |-> NoSamples, ps |-> NoSamples,
     ivData |-> null]

\* useState defaults: 8.0 A, 0.65 V, 1.3, 1000 W/m^2, 25 C
SolarInit ==
    /\ SolarCellBrief = SolarStart([isc |-> 80, voc |-> 65, n |-> 13,
                                    irradiance |-> 1000, temp |-> 25])
    /\ ResonanceModule = Unmounted
    /\ ImpedanceModule = Unmounted
    /\ WaveguideModesModule = Unmounted
    /\ SnellModule = Unmounted
    /\ FresnelModule = Unmounted
    /\ MediumPropertiesModule = Unmounted
    /\ SkinDepthModule = Unmounted
    /\ LorentzForceModule = Unmounted
    /\ VectorOpsModule = Unmounted
    /\ PowerModule = Unmounted
    /\ BarcodeBrief = Unmounted
    /\ HelmholtzModule = Unmounted
    /\ TLineTransientModule = Unmounted
    /\ RCCircuitModule = Unmounted
    /\ wasm = Unmounted
    /\ App = Unmounted
    /\ MicrostripModule = Unmounted
    /\ ElectrostaticsModule = Unmounted

SolarOthers == << ResonanceModule, ImpedanceModule, WaveguideModesModule, SnellModule,
                  FresnelModule, MediumPropertiesModule, SkinDepthModule,
                  LorentzForceModule, VectorOpsModule, PowerModule, BarcodeBrief,
                  HelmholtzModule,
                  TLineTransientModule,
                  RCCircuitModule,
                  wasm,
                  App,
                  MicrostripModule,
                  ElectrostaticsModule >>

\* the slider values tried: the ends of the V_oc and temperature sliders,
\* the lower end of the irradiance slider, and I_sc and n as they are
SolarControls ==
    [isc |-> {80}, voc |-> {30, 120}, n |-> {13}, irradiance |-> {100}, temp |-> {0, 80}]

\* onChange of one slider: setIsc, setVoc, setN, setIrradiance or setTemp;
\* the render that follows enters the loop
SolarOnChange(field, v) ==
    /\ SolarCellBrief.mounted
    /\ SolarCellBrief.pc = "done"
    /\ SolarCellBrief' = SolarStart([SolarCellBrief.in EXCEPT ![field] = v])
    /\ UNCHANGED SolarOthers

\* One pass through the for statement: the condition, then the body up to
\* the break or through the three pushes and the increment.  When the loop
\* is left, ivData is returned.
SolarSweepStep ==
    /\ SolarCellBrief.mounted
    /\ SolarCellBrief.pc = "sweep"
    /\ \E vocAdj \in {VocAdj(SolarCellBrief.in)}, iscAdj \in {IscAdj(SolarCellBrief.in)} :
       \E limit \in {SolarLimit(vocAdj)}, step \in {SolarStep(vocAdj)} :
       \E negative \in CurrentIsNegative(SolarCellBrief.vi, vocAdj, iscAdj) :
         LET s == SolarCellBrief
         IN  IF SolarLoopCondition(s.vi, limit) /\ ~negative
             THEN \E vi \in {RAdd(s.vi, step)} :
                    SolarCellBrief' =
                      [s EXCEPT !.vs = Append(s.vs, s.vi),
                                !.is = Append(s.is, [quantity |-> "current", vi |-> s.vi]),
                                !.ps = Append(s.ps, [quantity |-> "vi * current", vi |-> s.vi]),
                                !.vi = vi]
             ELSE SolarCellBrief' =
                      [s EXCEPT !.pc = "done",
                                !.ivData = [vs |-> s.vs, is |-> s.is, ps |-> s.ps,
                                            iscAdj |-> iscAdj, vocAdj |-> vocAdj]]
    /\ UNCHANGED SolarOthers

SolarNext ==
    \/ \E field \in DOMAIN SolarControls : \E v \in SolarControls[field] : SolarOnChange(field, v)
    \/ SolarSweepStep

\* The loop runs inside one render: once entered it keeps being executed.
SpecSolar == SolarInit /\ [][SolarNext]_vars /\ WF_vars(SolarSweepStep)

\* The user is on the resonance, the impedance or the solar-cell view.
CurvesInit == ResonanceInit \/ ImpedanceInit \/ SolarInit
CurvesNext ==
    \/ \E field \in DOMAIN ResonanceControls :
          \E v \in ResonanceControls[field] : ResonanceOnChange(field, v)
    \/ ResonanceSweepStep
    \/ \E field \in DOMAIN ImpedanceControls :
          \E v \in ImpedanceControls[field] : ImpedanceOnChange(field, v)
    \/ ImpedanceSweepStep
    \/ SolarNext
SpecCurves == CurvesInit /\ [][CurvesNext]_vars

(* Claims about sampled curves                                             *)

SameLength(xs, ys, zs) == Len(xs) = Len(ys) /\ Len(ys) = Len(zs)

\* C13: the sequences of every sampled curve handed to a plot have the
\* same length, the number of samples of the curve: freqs, magnitudes and
\* phases of the resonance response (and the x and y of its two plots),
\* betaLs, zinRe and zinIm of the impedance sweep, and vs, is and ps of the
\* solar-cell curve, also while and after its loop leaves early.
C13_CurvesHaveEqualLengths ==
    /\ (ResonanceModule.mounted /\ ResonanceModule.pc = "done") =>
          /\ SameLength(ResonanceModule.freqResponse.freqs,
                        ResonanceModule.freqResponse.magnitudes,
                        ResonanceModule.freqResponse.phases)
          /\ Len(ResonanceModule.freqResponse.freqs) = ResonanceN
          /\ SameLength(ResonanceModule.view.magnitude.x, ResonanceModule.view.magnitude.y,
                        ResonanceModule.view.phase.y)
          /\ SameLength(ResonanceModule.view.phase.x, ResonanceModule.view.phase.y,
                        ResonanceModule.freqResponse.freqs)
    /\ (ImpedanceModule.mounted /\ ImpedanceModule.pc = "done") =>
          /\ SameLength(ImpedanceModule.sweep.betaLs, ImpedanceModule.sweep.zinRe,
                        ImpedanceModule.sweep.zinIm)
          /\ Len(ImpedanceModule.sweep.betaLs) = ImpedanceN + 1
    /\ SolarCellBrief.mounted =>
          /\ SameLength(SolarCellBrief.vs, SolarCellBrief.is, SolarCellBrief.ps)
          /\ SolarCellBrief.pc = "done" =>
                SameLength(SolarCellBrief.ivData.vs, SolarCellBrief.ivData.is,
                           SolarCellBrief.ivData.ps)

\* The solar-cell loop has left through its break, before vi reached
\* 1.05 vocAdj, with 201 samples in each list.
C13_Witness ==
    /\ SolarCellBrief.mounted
    /\ SolarCellBrief.pc = "done"
    /\ SolarLoopCondition(SolarCellBrief.vi, SolarLimit(SolarCellBrief.ivData.vocAdj))
    /\ CurrentIsNegative(SolarCellBrief.vi, SolarCellBrief.ivData.vocAdj,
                         SolarCellBrief.ivData.iscAdj) = {TRUE}
    /\ Len(SolarCellBrief.ivData.ps) = SolarSteps + 1

(* Claims about the solar-cell sweep                                       *)

\* C20: for every setting of the sliders the solar-cell loop, once entered,
\* terminates and returns a curve (a possibly empty list, never an error),
\* and it never holds more than 212 samples.
C20_SweepTerminatesWithin212 ==
    /\ [](SolarCellBrief.mounted => Len(SolarCellBrief.vs) <= 212)
    /\ (SolarCellBrief.mounted /\ SolarCellBrief.pc = "sweep")
          ~> (SolarCellBrief.pc = "done" /\ SolarCellBrief.ivData # null
                /\ Len(SolarCellBrief.ivData.vs) <= 212)

\* The sweep at the smallest adjusted V_oc the sliders give (0.3 V at 80 C,
\* vocAdj = 0.19 V) has returned its curve.
C20_Witness ==
    /\ SolarCellBrief.mounted
    /\ SolarCellBrief.in.voc = 30
    /\ SolarCellBrief.in.temp = 80
    /\ SolarCellBrief.pc = "done"
    /\ Len(SolarCellBrief.ivData.vs) = SolarSteps + 1

---------------------------------------------------------------------------
(* HelmholtzModule (src/web/src/modules/HelmholtzModule.tsx)               *)
(* radius in hundredths of a metre, current in tenths of an ampere and     *)
(* separation in twentieths of the radius (the steps of the sliders).      *)
(* Fields are in units of mu_0 / 2 * 1e-4 T.                               *)

\* the floor of the square root of n, between lo and hi
RECURSIVE ISqrtBetween(_, _, _)
ISqrtBetween(n, lo, hi) ==
    IF lo = hi THEN lo
    ELSE LET mid == (lo + hi + 1) \div 2
         IN  IF mid * mid <= n THEN ISqrtBetween(n, mid, hi)
             ELSE ISqrtBetween(n, lo, mid - 1)
ISqrt(n) == ISqrtBetween(n, 0, 46340)

\* (1 + w^2)^(-3/2) in ten-thousandths, w and 1 + w^2 kept to three decimals:
\* the on-axis field of a loop at the distance w (in radii) from its plane
LoopShape(w) ==
    LET W == (1000 * Abs(w.n)) \div w.d
        X == 1000 + (W * W) \div 1000
        T == (X * ISqrt(1000 * X)) \div 1000
    IN  10000000 \div T

\* the num_points positions from z_min to z_max
LinSpace(z_min, z_max, num_points) ==
    [k \in 1..num_points |->
        RAdd(z_min, RMul(Rat(k - 1, num_points - 1), RSub(z_max, z_min)))]

\* Engine: the field of a loop of the given radius and current on its axis
current_loop_on_axis(radius, current, z_min, z_max, num_points) ==
    LET z == LinSpace(z_min, z_max, num_points)
    IN  [z |-> z,
         bz |-> [k \in 1..num_points |->
                    RMul(RDiv(current, radius), Rat(LoopShape(RDiv(z[k], radius)), 1))]]

\* Engine: two coaxial loops of the given radius, a radius apart, each of
\* the given turns and current
helmholtz_coil(radius, current, turns, z_min, z_max, num_points) ==
    LET z == LinSpace(z_min, z_max, num_points)
        half == Rat(1, 2)
    IN  [z |-> z,
         bz |-> [k \in 1..num_points |->
                    LET w == RDiv(z[k], radius)
                    IN  RMul(RDiv(RMul(turns, current), radius),
                             Rat(LoopShape(RSub(w, half)) + LoopShape(RAdd(w, half)), 1))]]

HelmholtzPoints == 300

\* the data useMemo
HelmholtzData(radius, current, turns, separation) ==
    LET sep == RMul(separation, radius)
        zMax == RMul(sep, Rat(2, 1))
    IN  [helmholtz |-> helmholtz_coil(radius, current, turns, RSub(RZero, zMax), zMax,
                                      HelmholtzPoints),
         single |-> current_loop_on_axis(radius, RMul(current, turns), RSub(RZero, zMax), zMax,
                                         HelmholtzPoints)]

\* Math.abs
MathAbs(x) == IF IsFinite(x) THEN Rat(Abs(x.n), x.d) ELSE x

\* x > y in JavaScript, for numbers that are not negative infinity
JSGreater(x, y) ==
    IF x = NaN \/ y = NaN THEN FALSE
    ELSE IF x = Infinity THEN y # Infinity
    ELSE IF y = Infinity THEN FALSE
    ELSE RLt(y, x)

\* Math.floor(length * fraction), fraction in tenths
FloorOfTenths(length, tenths) == (length * tenths) \div 10

UniformitySpanOfHalf(length) == FloorOfTenths(length, 5)
\* Math.floor(bz.length * 0.1)
UniformitySpan(length) == FloorOfTenths(length, 1)

\* One pass of the for loop of the uniformity useMemo: maxDev after the
\* pass for i (bz is indexed from 1 here and from 0 in the code)
UniformityBody(bz, bCenter, i, maxDev) ==
    IF i >= 0 /\ i < Len(bz)
    THEN LET dev == MathAbs(JSDivide(RSub(bz[i + 1], bCenter), bCenter))
         IN  IF JSGreater(dev, maxDev) THEN dev ELSE maxDev
    ELSE maxDev

\* Math.floor(bz.length / 2)
UniformityCenter(bz) == Len(bz) \div 2

\* The controls' values, the result cards and the two traces of the plot.
HelmholtzView(in, data, uniformity) ==
    [badge |-> 100 * Abs(in.separation - 20) < 120,
     cards |-> IF uniformity = null THEN null
               ELSE Rendered([bCenter |-> ToFixed(JSTimes(uniformity.bCenter, 1000000)),
                              maxDev |-> ToFixed(JSTimes(uniformity.maxDev, 100)),
                              separation |-> ToFixed(Rat(in.separation * in.radius, 20))]),
     plot |-> IF data = null THEN null
              ELSE [helmholtz |-> [x |-> Map(data.helmholtz.z, "z * 100"),
                                   y |-> Map(data.helmholtz.bz, "b * 1e6")],
                    single |-> [x |-> Map(data.single.z, "z * 100"),
                                y |-> Map(data.single.bz, "b * 1e6")]]]

\* A render up to the for loop of the uniformity useMemo: the data useMemo
\* has run and the loop is about to start at center - span.
HelmholtzStart(in) ==
    LET data == HelmholtzData(Rat(in.radius, 100), Rat(in.current, 10),
                              Rat(in.turns, 1), Rat(in.separation, 20))
        bz == data.helmholtz.bz
    IN  [mounted |-> TRUE, in |-> in, data |-> data, pc |-> "sweep",
         i |-> UniformityCenter(bz) - UniformitySpan(Len(bz)), maxDev |-> RZero,
         uniformity |-> null, view |-> null]

\* useState defaults: 0.1 m, 1.0 A, 10 turns, separation 1.0 R
HelmholtzInit ==
    /\ HelmholtzModule = HelmholtzStart([radius |-> 10, current |-> 10, turns |-> 10,
                                          separation |-> 20])
    /\ WaveguideModesModule = Unmounted
    /\ SnellModule = Unmounted
    /\ FresnelModule = Unmounted
    /\ MediumPropertiesModule = Unmounted
    /\ SkinDepthModule = Unmounted
    /\ LorentzForceModule = Unmounted
    /\ VectorOpsModule = Unmounted
    /\ PowerModule = Unmounted
    /\ BarcodeBrief = Unmounted
    /\ ResonanceModule = Unmounted
    /\ ImpedanceModule = Unmounted
    /\ SolarCellBrief = Unmounted
    /\ TLineTransientModule = Unmounted
    /\ RCCircuitModule = Unmounted
    /\ wasm = Unmounted
    /\ App = Unmounted
    /\ MicrostripModule = Unmounted
    /\ ElectrostaticsModule = Unmounted

HelmholtzOthers == << WaveguideModesModule, SnellModule, FresnelModule, MediumPropertiesModule, SkinDepthModule, LorentzForceModule, VectorOpsModule, PowerModule, BarcodeBrief, ResonanceModule, ImpedanceModule, SolarCellBrief, TLineTransientModule, RCCircuitModule,
                   wasm,
                   App,
                   MicrostripModule,
                   ElectrostaticsModule >>

\* the slider values tried: separations from 0.2 R to 3.0 R, the Helmholtz
\* condition 1.0 R and its neighbour among them
HelmholtzControls ==
    [radius |-> {10, 20}, current |-> {20}, turns |-> {100},
     separation |-> {4, 20, 21, 40, 60}]

\* onChange of one slider: setRadius, setCurrent, setTurns or setSeparation
HelmholtzOnChange(field, v) ==
    /\ HelmholtzModule.mounted
    /\ HelmholtzModule.pc = "done"
    /\ HelmholtzModule' = HelmholtzStart([HelmholtzModule.in EXCEPT ![field] = v])
    /\ UNCHANGED HelmholtzOthers

\* One pass through the for statement of the uniformity useMemo; when the
\* loop is left the useMemo returns and the JSX is built.
UniformityStep ==
    /\ HelmholtzModule.mounted
    /\ HelmholtzModule.pc = "sweep"
    /\ LET s == HelmholtzModule
           bz == s.data.helmholtz.bz
           center == UniformityCenter(bz)
           bCenter == bz[center + 1]
       IN  IF s.i <= center + UniformitySpan(Len(bz))
           THEN HelmholtzModule' =
                    [s EXCEPT !.maxDev = UniformityBody(bz, bCenter, s.i, s.maxDev),
                              !.i = s.i + 1]
           ELSE LET uniformity == [bCenter |-> bCenter, maxDev |-> s.maxDev]
                IN  HelmholtzModule' =
                        [s EXCEPT !.pc = "done", !.uniformity = uniformity,
                                  !.view = HelmholtzView(s.in, s.data, uniformity)]
    /\ UNCHANGED HelmholtzOthers

HelmholtzNext ==
    \/ \E field \in DOMAIN HelmholtzControls :
          \E v \in HelmholtzControls[field] : HelmholtzOnChange(field, v)
    \/ UniformityStep

SpecHelmholtz == HelmholtzInit /\ [][HelmholtzNext]_vars

(* Claims about the Helmholtz coil                                         *)

\* the samples the uniformity looks at: the centre sample and a tenth of
\* the samples on each side of it
UniformityWindow(bz) ==
    { i \in 0..(Len(bz) - 1) :
        10 * Abs(i - Len(bz) \div 2) <= Len(bz) }

RelativeDeviation(bz, i) ==
    RDiv(MathAbs(RSub(bz[i + 1], bz[Len(bz) \div 2 + 1])), MathAbs(bz[Len(bz) \div 2 + 1]))

\* C15: the uniformity reported is the largest |B(z) - B(centre)| / |B(centre)|
\* over the samples within a tenth of the samples on each side of the centre
\* sample, no other sample contributes, and it is not negative.
C15_UniformityIsMaxOverWindow ==
    (HelmholtzModule.mounted /\ HelmholtzModule.pc = "done") =>
        LET bz == HelmholtzModule.data.helmholtz.bz
            maxDev == HelmholtzModule.uniformity.maxDev
        IN  /\ IsFinite(maxDev)
            /\ RLe(RZero, maxDev)
            /\ \E i \in UniformityWindow(bz) : RelativeDeviation(bz, i) = maxDev
            /\ \A i \in UniformityWindow(bz) : RLe(RelativeDeviation(bz, i), maxDev)

\* At a separation of 3.0 R the field deviates from its centre value inside
\* the window, and deviates more at a sample outside it.
C15_Witness ==
    /\ HelmholtzModule.mounted
    /\ HelmholtzModule.pc = "done"
    /\ HelmholtzModule.in.separation = 60
    /\ RLt(RZero, HelmholtzModule.uniformity.maxDev)
    /\ \E i \in 0..(HelmholtzPoints - 1) :
          /\ i \notin UniformityWindow(HelmholtzModule.data.helmholtz.bz)
          /\ RLt(HelmholtzModule.uniformity.maxDev,
                 RelativeDeviation(HelmholtzModule.data.helmholtz.bz, i))

\* C18: a change of the separation slider alone changes the field profile:
\* at every position that is sampled before and after the change, B differs.
C18_SeparationChangesField ==
    [][(/\ HelmholtzModule.mounted
        /\ HelmholtzModule'.in.separation # HelmholtzModule.in.separation
        /\ HelmholtzModule'.in.radius = HelmholtzModule.in.radius
        /\ HelmholtzModule'.in.current = HelmholtzModule.in.current
        /\ HelmholtzModule'.in.turns = HelmholtzModule.in.turns)
       => \A i, j \in 1..HelmholtzPoints :
             HelmholtzModule.data.helmholtz.z[i] = HelmholtzModule'.data.helmholtz.z[j]
                => HelmholtzModule.data.helmholtz.bz[i] # HelmholtzModule'.data.helmholtz.bz[j]]_vars

---------------------------------------------------------------------------
(* TLineTransientModule (src/unnamed/part_006)                             *)
(* Impedances in ohms, v0 in volts, length in metres, as the sliders give  *)
(* them; the velocity has no control and stays 2e8 m/s.                    *)

TLineVelocity == 200000000

\* (z - z0) / (z + z0): gammaL for z = zl and gammaS for z = zs
TLineGamma(z, z0) == JSDivide(Rat(z - z0, 1), Rat(z + z0, 1))

\* v0 * z0 / (z0 + zs)
VInit(in) == JSDivide(Rat(in.v0 * in.z0, 1), Rat(in.z0 + in.zs, 1))

\* v0 * zl / (zl + zs)
VSteady(in) == JSDivide(Rat(in.v0 * in.zl, 1), Rat(in.zl + in.zs, 1))

\* length / velocity
DelayOf(in) == Rat(in.length, TLineVelocity)

BounceBodySourceReflectionDropped(acc, i, td, gammaL, gammaS) ==
    LET reflected == RMul(acc.currentWave, gammaL)
        vAtLoad == RAdd(acc.vAtLoad, RAdd(acc.currentWave, reflected))
        vAtSource == RAdd(acc.vAtSource, RAdd(reflected, reflected))
    IN  [times |-> acc.times \o << RMul(Rat(2 * i + 1, 1), td), RMul(Rat(2 * i + 2, 1), td) >>,
         vLoad |-> Append(acc.vLoad, vAtLoad),
         vSource |-> Append(acc.vSource, vAtSource),
         vAtLoad |-> vAtLoad, vAtSource |-> vAtSource,
         currentWave |-> reflected]
\* One pass of the bounce loop: the wave reaches the load, its reflection
\* reaches the source, and the reflection of that is the next wave.
BounceBody(acc, i, td, gammaL, gammaS) ==
    LET reflected == RMul(acc.currentWave, gammaL)
        vAtLoad == RAdd(acc.vAtLoad, RAdd(acc.currentWave, reflected))
        reReflected == RMul(reflected, gammaS)
        vAtSource == RAdd(acc.vAtSource, RAdd(reflected, reReflected))
    IN  [times |-> acc.times \o << RMul(Rat(2 * i + 1, 1), td), RMul(Rat(2 * i + 2, 1), td) >>,
         vLoad |-> Append(acc.vLoad, vAtLoad),
         vSource |-> Append(acc.vSource, vAtSource),
         vAtLoad |-> vAtLoad, vAtSource |-> vAtSource,
         currentWave |-> reReflected]

\* the loadPlot useMemo: a step at (2 i + 1) td for each element of vLoad
LoadPlot(results, bounces) ==
    LET n == Len(results.vLoad)
        tArr(i) == RMul(Rat(2 * i + 1, 1), results.td)
    IN  [ts |-> [k \in 1..(2 * n + 2) |->
                    IF k = 1 THEN RZero
                    ELSE IF k = 2 * n + 2 THEN tArr(bounces)
                    ELSE tArr((k - 2) \div 2)],
         vs |-> [k \in 1..(2 * n + 2) |->
                    IF k = 1 THEN RZero
                    ELSE IF k = 2 * n + 2 THEN results.vLoad[n]
                    ELSE IF (k - 2) % 2 = 1 THEN results.vLoad[(k - 2) \div 2 + 1]
                    ELSE IF k = 2 THEN RZero
                    ELSE results.vLoad[(k - 2) \div 2]]]

\* the srcPlot useMemo: a step at 2 i td for each element of vSource
SrcPlot(results, bounces) ==
    LET n == Len(results.vSource)
    IN  [ts |-> [k \in 1..(2 * n + 2) |->
                    IF k = 1 THEN RZero
                    ELSE IF k = 2 * n + 2 THEN RMul(Rat(2 * bounces + 1, 1), results.td)
                    ELSE RMul(Rat(2 * ((k - 2) \div 2), 1), results.td)],
         vs |-> [k \in 1..(2 * n + 2) |->
                    IF k = 1 THEN RZero
                    ELSE IF k = 2 * n + 2 THEN results.vSource[n]
                    ELSE IF (k - 2) % 2 = 1 THEN results.vSource[(k - 2) \div 2 + 1]
                    ELSE IF k = 2 THEN RZero
                    ELSE results.vSource[(k - 2) \div 2]]]

\* fmtTime: nanoseconds below a microsecond, microseconds below a
\* millisecond, milliseconds otherwise
FmtTime(t) ==
    IF RLt(t, Rat(1, 1000000)) THEN [fixed |-> RMul(t, Rat(1000000000, 1)), unit |-> "ns"]
    ELSE IF RLt(t, Rat(1, 1000)) THEN [fixed |-> RMul(t, Rat(1000000, 1)), unit |-> "us"]
    ELSE [fixed |-> RMul(t, Rat(1000, 1)), unit |-> "ms"]

\* The result cards and the three traces of the plot.
TLineView(in, results) ==
    LET loadPlot == LoadPlot(results, in.bounces)
        srcPlot == SrcPlot(results, in.bounces)
    IN  Rendered(
          [gammaL |-> ToFixed(results.gammaL),
           gammaS |-> ToFixed(results.gammaS),
           vInit |-> ToFixed(results.vInit),
           vSteady |-> ToFixed(results.vSteady),
           td |-> FmtTime(results.td),
           load |-> [x |-> Map(loadPlot.ts, "t / td"), y |-> loadPlot.vs],
           source |-> [x |-> Map(srcPlot.ts, "t / td"), y |-> srcPlot.vs],
           steady |-> [x |-> << 0, 2 * in.bounces + 1 >>,
                       y |-> << results.vSteady, results.vSteady >>]])

\* entering the results useMemo with the inputs in: the lists hold their
\* first elements and the first wave is vInit
TLineStart(in) ==
    [mounted |-> TRUE, in |-> in, pc |-> "sweep", i |-> 0,
     gammaL |-> TLineGamma(in.zl, in.z0), gammaS |-> TLineGamma(in.zs, in.z0),
     vInit |-> VInit(in),
     acc |-> [times |-> << RZero >>, vLoad |-> << RZero >>, vSource |-> << VInit(in) >>,
              vAtLoad |-> RZero, vAtSource |-> VInit(in), currentWave |-> VInit(in)],
     results |-> null, view |-> null]

\* useState defaults: 50, 100 and 50 ohms, 10 V, 100 m, 8 bounces
TLineInit ==
    /\ TLineTransientModule = TLineStart([z0 |-> 50, zl |-> 100, zs |-> 50, v0 |-> 10,
                                          length |-> 100, bounces |-> 8])
    /\ WaveguideModesModule = Unmounted
    /\ SnellModule = Unmounted
    /\ FresnelModule = Unmounted
    /\ MediumPropertiesModule = Unmounted
    /\ SkinDepthModule = Unmounted
    /\ LorentzForceModule = Unmounted
    /\ VectorOpsModule = Unmounted
    /\ PowerModule = Unmounted
    /\ BarcodeBrief = Unmounted
    /\ ResonanceModule = Unmounted
    /\ ImpedanceModule = Unmounted
    /\ SolarCellBrief = Unmounted
    /\ HelmholtzModule = Unmounted
    /\ RCCircuitModule = Unmounted
    /\ wasm = Unmounted
    /\ App = Unmounted
    /\ MicrostripModule = Unmounted
    /\ ElectrostaticsModule = Unmounted

TLineOthers == << WaveguideModesModule, SnellModule, FresnelModule, MediumPropertiesModule, SkinDepthModule, LorentzForceModule, VectorOpsModule, PowerModule, BarcodeBrief, ResonanceModule, ImpedanceModule, SolarCellBrief, HelmholtzModule, RCCircuitModule,
                   wasm,
                   App,
                   MicrostripModule,
                   ElectrostaticsModule >>

\* the slider values tried: a short, the default and 150 ohms at the load,
\* a short, a match and 150 ohms at the source
TLineControls ==
    [z0 |-> {50}, zl |-> {0, 100, 150}, zs |-> {0, 50, 150}, v0 |-> {10},
     length |-> {1000}, bounces |-> {2, 8}]

\* onChange of one slider: setZ0, setZl, setZs, setV0, setLength or setBounces
TLineOnChange(field, v) ==
    /\ TLineTransientModule.mounted
    /\ TLineTransientModule.pc = "done"
    /\ TLineTransientModule' = TLineStart([TLineTransientModule.in EXCEPT ![field] = v])
    /\ UNCHANGED TLineOthers

\* One pass through the for statement of the results useMemo; when the loop
\* is left the steady state is computed, results is returned and the plots
\* and the JSX are built.
BounceStep ==
    /\ TLineTransientModule.mounted
    /\ TLineTransientModule.pc = "sweep"
    /\ LET s == TLineTransientModule
           td == DelayOf(s.in)
       IN  IF s.i < s.in.bounces
           THEN TLineTransientModule' =
                    [s EXCEPT !.acc = BounceBody(s.acc, s.i, td, s.gammaL, s.gammaS),
                              !.i = s.i + 1]
           ELSE LET results == [gammaL |-> s.gammaL, gammaS |-> s.gammaS,
                                vInit |-> s.vInit, vSteady |-> VSteady(s.in), td |-> td,
                                times |-> s.acc.times, vLoad |-> s.acc.vLoad,
                                vSource |-> s.acc.vSource]
                IN  TLineTransientModule' =
                        [s EXCEPT !.pc = "done", !.results = results,
                                  !.view = TLineView(s.in, results)]
    /\ UNCHANGED TLineOthers

TLineNext ==
    \/ \E field \in DOMAIN TLineControls :
          \E v \in TLineControls[field] : TLineOnChange(field, v)
    \/ BounceStep

SpecTLine == TLineInit /\ [][TLineNext]_vars

(* Claims about the bounce diagram                                         *)

\* x^k
RECURSIVE Power(_, _)
Power(x, k) == IF k = 0 THEN ROne ELSE RMul(x, Power(x, k - 1))

\* C16: for all impedances the sliders give, the load voltage approaches the
\* steady state v0 zl / (zl + zs) geometrically: the steady state is a
\* number, the ratio gammaL gammaS is below 1 in magnitude, and after k
\* bounces the load voltage is short of the steady state by the steady state
\* times the k-th power of the ratio.
C16_LoadVoltageConvergesGeometrically ==
    TLineTransientModule.mounted =>
        LET s == TLineTransientModule
            ratio == RMul(s.gammaL, s.gammaS)
            vSteady == VSteady(s.in)
        IN  /\ IsFinite(vSteady)
            /\ RLt(MathAbs(ratio), ROne)
            /\ RSub(vSteady, s.acc.vAtLoad) = RMul(vSteady, Power(ratio, s.i))

\* C17: after k passes of the bounce loop the forward wave is vInit times
\* the k-th power of gammaL gammaS, each pass multiplying it by gammaL gammaS.
C17_ForwardWaveIsGeometric ==
    TLineTransientModule.mounted =>
        LET s == TLineTransientModule
        IN  s.acc.currentWave = RMul(s.vInit, Power(RMul(s.gammaL, s.gammaS), s.i))

\* Eight bounces between a 150 ohm load and a 150 ohm source on a 50 ohm
\* line: the wave is 2.5 V / 4^8.
C17_Witness ==
    /\ TLineTransientModule.mounted
    /\ TLineTransientModule.pc = "done"
    /\ TLineTransientModule.in.zl = 150
    /\ TLineTransientModule.in.zs = 150
    /\ TLineTransientModule.i = 8
    /\ TLineTransientModule.acc.currentWave = Rat(5, 131072)

\* the value a step trace shows at time t: that of its last point not after t
PlottedValue(plot, t) ==
    LET upTo == {j \in DOMAIN plot.ts : RLe(plot.ts[j], t)}
        last == CHOOSE j \in upTo : \A m \in upTo : m <= j
    IN  plot.vs[last]

\* C23: in the plotted load trace the k-th load voltage (k >= 1) takes effect
\* at (2 k - 1) td, the arrival time recorded for it in times, so the trace
\* first leaves 0 at td.
C23_LoadStepsAtArrivalTimes ==
    (TLineTransientModule.mounted /\ TLineTransientModule.pc = "done") =>
        LET s == TLineTransientModule
            r == s.results
            loadPlot == LoadPlot(r, s.in.bounces)
        IN  \A k \in 1..s.in.bounces :
                /\ r.times[2 * k] = RMul(Rat(2 * k - 1, 1), r.td)
                /\ PlottedValue(loadPlot, r.times[2 * k]) = r.vLoad[k + 1]

---------------------------------------------------------------------------
(* RCCircuitModule (src/web/src/modules/RCCircuitModule.tsx)               *)
(* voltage in volts and resistance in ohms as the sliders give them,       *)
(* capacitance in hundredths of a microfarad (the step of its slider).     *)
(* A value that needs the exponential is kept as a + b exp(arg), a and b   *)
(* rational and arg a rational that is never positive.                     *)

\* Math.exp(x)
MathExp(x) == [a |-> RZero, b |-> ROne, arg |-> x]
\* 1 - e and k * e for such a value e
OneMinus(e) == [a |-> RSub(ROne, e.a), b |-> RSub(RZero, e.b), arg |-> e.arg]
Times(k, e) == [a |-> RMul(k, e.a), b |-> RMul(k, e.b), arg |-> e.arg]

\* the value a + b exp(arg) against a rational r: exp(0) = 1 and
\* 0 < exp(arg) < 1 for arg < 0
ExpEquals(e, r) ==
    IF e.arg = RZero THEN RAdd(e.a, e.b) = r ELSE e.b = RZero /\ e.a = r
ExpBelow(e, r) ==
    IF e.arg = RZero THEN RLt(RAdd(e.a, e.b), r)
    ELSE IF e.b = RZero THEN RLt(e.a, r)
    ELSE RLe(e.a, r) /\ RLe(RAdd(e.a, e.b), r)
ExpAbove(e, r) ==
    IF e.arg = RZero THEN RLt(r, RAdd(e.a, e.b))
    ELSE IF e.b = RZero THEN RLt(r, e.a)
    ELSE RLe(r, e.a) /\ RLe(r, RAdd(e.a, e.b))
\* e < f for two values with the same a and b: the exponential is increasing
ExpLess(e, f) ==
    /\ e.a = f.a
    /\ e.b = f.b
    /\ \/ RLt(RZero, e.b) /\ RLt(e.arg, f.arg)
       \/ RLt(e.b, RZero) /\ RLt(f.arg, e.arg)

RCSamples == 500

\* resistance * capacitance
Tau(in) == Rat(in.resistance * in.capacitance, 100000000)

RCBodyChargeOnly(acc, i, in, tau) ==
    LET t == JSDivide(RMul(RMul(tau, Rat(6, 1)), Rat(i, 1)), Rat(RCSamples - 1, 1))
        decay == MathExp(RSub(RZero, JSDivide(t, tau)))
        i0 == JSDivide(Rat(in.voltage, 1), Rat(in.resistance, 1))
    IN  [ts |-> Append(acc.ts, t),
         vc |-> Append(acc.vc, Times(Rat(in.voltage, 1), OneMinus(decay))),
         ic |-> Append(acc.ic, Times(i0, decay))]
\* One pass of the loop of the data useMemo: t = tEnd * i / (n - 1) and the
\* capacitor voltage and the current at t, by the mode.
RCBody(acc, i, in, tau) ==
    LET t == JSDivide(RMul(RMul(tau, Rat(6, 1)), Rat(i, 1)), Rat(RCSamples - 1, 1))
        decay == MathExp(RSub(RZero, JSDivide(t, tau)))
        i0 == JSDivide(Rat(in.voltage, 1), Rat(in.resistance, 1))
    IN  IF in.mode = "charge"
        THEN [ts |-> Append(acc.ts, t),
              vc |-> Append(acc.vc, Times(Rat(in.voltage, 1), OneMinus(decay))),
              ic |-> Append(acc.ic, Times(i0, decay))]
        ELSE [ts |-> Append(acc.ts, t),
              vc |-> Append(acc.vc, Times(Rat(in.voltage, 1), decay)),
              ic |-> Append(acc.ic, Times(RSub(RZero, i0), decay))]

\* resistance * capacitance in the doubles the program computes with: the
\* capacitance is the double of the slider's decimal string times 1e-6
\* (setCapacitance(+e.target.value * 1e-6)), the resistance a whole number.
\* 10000 ohms times 100 uF is 0.9999999999999999, not 1.
TauDouble(in) ==
    DblTimes(DblOf(in.resistance, 1), DblTimes(DblOf(in.capacitance, 100), DblOf(1, 1000000)))

\* the tauFmt useMemo.  The three tests compare doubles; val, which the
\* card shows with two decimals, is kept exact.
TauFmt(in, tau) ==
    CHOOSE fmt \in
        { IF DblLess(d[1], d[2])
          THEN [val |-> RMul(tau, Rat(1000000000, 1)), unit |-> "ns"]
          ELSE IF DblLess(d[1], d[3])
          THEN [val |-> RMul(tau, Rat(1000000, 1)), unit |-> "us"]
          ELSE IF DblLess(d[1], d[4])
          THEN [val |-> RMul(tau, Rat(1000, 1)), unit |-> "ms"]
          ELSE [val |-> tau, unit |-> "s"] : d \in {DblValues(<< TauDouble(in), DblOf(1, 1000000), DblOf(1, 1000),
                                 DblOf(1, 1) >>)} } : TRUE

\* The result cards and the two plots.
RCView(in, tau, data) ==
    LET tauFmt == TauFmt(in, tau)
    IN  Rendered(
          [tau |-> [fixed |-> ToFixed(tauFmt.val), unit |-> tauFmt.unit],
           qMax |-> ToFixed(Rat(in.capacitance * in.voltage, 100)),
           i0 |-> ToFixed(Rat(in.voltage * 1000, in.resistance)),
           energy |-> ToFixed(Rat(in.capacitance * in.voltage * in.voltage, 200)),
           voltagePlot |-> [x |-> Map(data.ts, "t / tau"), y |-> Map(data.vc, "v / voltage"),
                            title |-> IF in.mode = "charge" THEN "Charging" ELSE "Discharging"],
           currentPlot |-> [x |-> Map(data.ts, "t / tau"), y |-> Map(data.ic, "i * 1e3")]])

\* entering the data useMemo with the inputs in
RCStart(in) ==
    [mounted |-> TRUE, in |-> in, tau |-> Tau(in), pc |-> "sweep", i |-> 0,
     acc |-> [ts |-> NoSamples, vc |-> NoSamples, ic |-> NoSamples],
     data |-> null, view |-> null]

\* useState defaults: 10 V, 1000 ohms, 1 uF, charging
RCInit ==
    /\ RCCircuitModule = RCStart([voltage |-> 10, resistance |-> 1000,
                                  capacitance |-> 100, mode |-> "charge"])
    /\ WaveguideModesModule = Unmounted
    /\ SnellModule = Unmounted
    /\ FresnelModule = Unmounted
    /\ MediumPropertiesModule = Unmounted
    /\ SkinDepthModule = Unmounted
    /\ LorentzForceModule = Unmounted
    /\ VectorOpsModule = Unmounted
    /\ PowerModule = Unmounted
    /\ BarcodeBrief = Unmounted
    /\ ResonanceModule = Unmounted
    /\ ImpedanceModule = Unmounted
    /\ SolarCellBrief = Unmounted
    /\ HelmholtzModule = Unmounted
    /\ TLineTransientModule = Unmounted
    /\ wasm = Unmounted
    /\ App = Unmounted
    /\ MicrostripModule = Unmounted
    /\ ElectrostaticsModule = Unmounted

RCOthers == << WaveguideModesModule, SnellModule, FresnelModule, MediumPropertiesModule, SkinDepthModule, LorentzForceModule, VectorOpsModule, PowerModule, BarcodeBrief, ResonanceModule, ImpedanceModule, SolarCellBrief, HelmholtzModule, TLineTransientModule,
                   wasm,
                   App,
                   MicrostripModule,
                   ElectrostaticsModule >>

\* the values of the controls tried: 10 kilohms and 100 uF, a time constant
\* of one second, among them
RCControls ==
    [voltage |-> {20}, resistance |-> {10000}, capacitance |-> {10000},
     mode |-> {"charge", "discharge"}]

\* onChange of the mode select or of one slider: setMode, setVoltage,
\* setResistance or setCapacitance
RCOnChange(field, v) ==
    /\ RCCircuitModule.mounted
    /\ RCCircuitModule.pc = "done"
    /\ RCCircuitModule' = RCStart([RCCircuitModule.in EXCEPT ![field] = v])
    /\ UNCHANGED RCOthers

\* One pass through the for statement of the data useMemo; when the loop is
\* left data is returned and the JSX is built.
RCSweepStep ==
    /\ RCCircuitModule.mounted
    /\ RCCircuitModule.pc = "sweep"
    /\ LET s == RCCircuitModule
       IN  IF s.i < RCSamples
           THEN RCCircuitModule' =
                    [s EXCEPT !.acc = RCBody(s.acc, s.i, s.in, s.tau), !.i = s.i + 1]
           ELSE RCCircuitModule' =
                    [s EXCEPT !.pc = "done", !.data = s.acc,
                              !.view = RCView(s.in, s.tau, s.acc)]
    /\ UNCHANGED RCOthers

RCNext ==
    \/ \E field \in DOMAIN RCControls : \E v \in RCControls[field] : RCOnChange(field, v)
    \/ RCSweepStep

SpecRC == RCInit /\ [][RCNext]_vars

(* Claims about the RC step response                                       *)

\* the value V (1 - exp(-t / (R C))) of the charging and V exp(-t / (R C))
\* of the discharging capacitor
StepResponse(in, t) ==
    LET rc == Rat(in.resistance * in.capacitance, 100000000)
        x == RSub(RZero, RDiv(t, rc))
        V == Rat(in.voltage, 1)
    IN  IF in.mode = "charge" THEN [a |-> V, b |-> RSub(RZero, V), arg |-> x]
        ELSE [a |-> RZero, b |-> V, arg |-> x]

\* C19: the samples of the capacitor voltage follow the step response with
\* the time constant R C: V (1 - exp(-t / (R C))) from 0 upwards and below V
\* when charging, V exp(-t / (R C)) from V downwards and above 0 when
\* discharging, each sample beyond the one before it, at times from 0 to
\* 6 R C.
C19_StepResponseWithTimeConstantRC ==
    RCCircuitModule.mounted =>
        LET s == RCCircuitModule
            V == Rat(s.in.voltage, 1)
            rc == Rat(s.in.resistance * s.in.capacitance, 100000000)
            vc == s.acc.vc
            ts == s.acc.ts
        IN  /\ \A k \in 1..Len(vc) : vc[k] = StepResponse(s.in, ts[k])
            /\ Len(ts) >= 1 => ts[1] = RZero
            /\ \A k \in 1..(Len(ts) - 1) : RSub(ts[k + 1], ts[k]).n > 0
            /\ s.pc = "done" => (Len(ts) = RCSamples /\ ts[RCSamples] = RMul(rc, Rat(6, 1)))
            /\ s.in.mode = "charge" =>
                  /\ Len(vc) >= 1 => ExpEquals(vc[1], RZero)
                  /\ \A k \in 1..Len(vc) : ExpBelow(vc[k], V)
                  /\ \A k \in 1..(Len(vc) - 1) : ExpLess(vc[k], vc[k + 1])
            /\ s.in.mode = "discharge" =>
                  /\ Len(vc) >= 1 => ExpEquals(vc[1], V)
                  /\ \A k \in 1..Len(vc) : ExpAbove(vc[k], RZero)
                  /\ \A k \in 1..(Len(vc) - 1) : ExpLess(vc[k + 1], vc[k])

\* The discharge of 20 V through 10 kilohms has been sampled to 6 R C.
C19_Witness ==
    /\ RCCircuitModule.mounted
    /\ RCCircuitModule.pc = "done"
    /\ RCCircuitModule.in.mode = "discharge"
    /\ RCCircuitModule.in.voltage = 20
    /\ RCCircuitModule.in.resistance = 10000
    /\ Len(RCCircuitModule.data.vc) = RCSamples
    /\ RCCircuitModule.data.vc[RCSamples].arg = Rat(-6, 1)


(***************************************************************************)
(* The application shell: src/web/src/wasm.ts and src/web/src/App.tsx.     *)
(*                                                                         *)
(* wasm holds the state of the module wasm.ts: its variable initialized    *)
(* and the invocations of ensureInit made so far, each with the state of   *)
(* the promise it returned and the callback registered on it with then.    *)
(* inits counts the invocations of the engine's init(); it is not a        *)
(* variable of the source.  App holds the hook state of the App component  *)
(* and what it last rendered.  The module components themselves are the    *)
(* subject of the specifications above; here a rendered module is the name *)
(* of its component.                                                       *)
(***************************************************************************)

\* MODULES, App.tsx lines 62-119, in the order of the source; the display
\* names are left out
MODULES ==
    << [id |-> "constants", chapter |-> 0],
       [id |-> "coordinates", chapter |-> 0],
       [id |-> "waveform", chapter |-> 1],
       [id |-> "traveling", chapter |-> 1],
       [id |-> "phase", chapter |-> 1],
       [id |-> "smith", chapter |-> 2],
       [id |-> "standing", chapter |-> 2],
       [id |-> "matching", chapter |-> 2],
       [id |-> "impedance", chapter |-> 2],
       [id |-> "coaxial", chapter |-> 2],
       [id |-> "quarterwave", chapter |-> 2],
       [id |-> "vectorops", chapter |-> 3],
       [id |-> "vectors", chapter |-> 3],
       [id |-> "gradient", chapter |-> 3],
       [id |-> "electrostatics", chapter |-> 4],
       [id |-> "images", chapter |-> 4],
       [id |-> "capacitance", chapter |-> 4],
       [id |-> "gauss", chapter |-> 4],
       [id |-> "magnetostatics", chapter |-> 5],
       [id |-> "wireforce", chapter |-> 5],
       [id |-> "solenoid", chapter |-> 5],
       [id |-> "helmholtz", chapter |-> 5],
       [id |-> "coaxbfield", chapter |-> 5],
       [id |-> "inductance", chapter |-> 5],
       [id |-> "faraday", chapter |-> 6],
       [id |-> "displacement", chapter |-> 6],
       [id |-> "relaxation", chapter |-> 6],
       [id |-> "generator", chapter |-> 6],
       [id |-> "transformer", chapter |-> 6],
       [id |-> "rlcircuit", chapter |-> 6],
       [id |-> "rccircuit", chapter |-> 6],
       [id |-> "resonance", chapter |-> 6],
       [id |-> "medium", chapter |-> 7],
       [id |-> "skindepth", chapter |-> 7],
       [id |-> "polarization", chapter |-> 7],
       [id |-> "fresnel", chapter |-> 7],
       [id |-> "snell", chapter |-> 7],
       [id |-> "waveguide", chapter |-> 7],
       [id |-> "boundary", chapter |-> 7],
       [id |-> "power", chapter |-> 7],
       [id |-> "waveequation", chapter |-> 7],
       [id |-> "energydensity", chapter |-> 7],
       [id |-> "waveguidemodes", chapter |-> 7],
       [id |-> "microstrip", chapter |-> 7],
       [id |-> "tlinetransient", chapter |-> 7],
       [id |-> "dipole", chapter |-> 8],
       [id |-> "array", chapter |-> 8],
       [id |-> "link", chapter |-> 8],
       [id |-> "antennagain", chapter |-> 8],
       [id |-> "aperture", chapter |-> 8],
       [id |-> "radar", chapter |-> 8],
       [id |-> "divcurl", chapter |-> 3],
       [id |-> "maxwell", chapter |-> 0],
       [id |-> "spectrum", chapter |-> 0],
       [id |-> "lorentz", chapter |-> 5],
       [id |-> "magmaterials", chapter |-> 5] >>

\* the switch of renderModule, App.tsx lines 131-191
renderModule(activeModule) ==
    CASE activeModule = "constants" -> "ConstantsModule"
      [] activeModule = "coordinates" -> "CoordinatesModule"
      [] activeModule = "waveform" -> "WaveformModule"
      [] activeModule = "traveling" -> "TravelingWaveModule"
      [] activeModule = "phase" -> "PhaseComparisonModule"
      [] activeModule = "smith" -> "SmithChartModule"
      [] activeModule = "standing" -> "StandingWaveModule"
      [] activeModule = "matching" -> "MatchingModule"
      [] activeModule = "impedance" -> "ImpedanceModule"
      [] activeModule = "coaxial" -> "CoaxialLineModule"
      [] activeModule = "quarterwave" -> "QuarterWaveModule"
      [] activeModule = "vectorops" -> "VectorOpsModule"
      [] activeModule = "vectors" -> "VectorFieldModule"
      [] activeModule = "gradient" -> "GradientModule"
      [] activeModule = "electrostatics" -> "ElectrostaticsModule"
      [] activeModule = "images" -> "MethodOfImagesModule"
      [] activeModule = "capacitance" -> "CapacitanceModule"
      [] activeModule = "gauss" -> "GaussModule"
      [] activeModule = "magnetostatics" -> "MagnetostaticsModule"
      [] activeModule = "wireforce" -> "WireForceModule"
      [] activeModule = "solenoid" -> "SolenoidModule"
      [] activeModule = "helmholtz" -> "HelmholtzModule"
      [] activeModule = "coaxbfield" -> "CoaxBFieldModule"
      [] activeModule = "inductance" -> "InductanceModule"
      [] activeModule = "faraday" -> "FaradayModule"
      [] activeModule = "displacement" -> "DisplacementCurrentModule"
      [] activeModule = "relaxation" -> "ChargeRelaxationModule"
      [] activeModule = "generator" -> "GeneratorModule"
      [] activeModule = "transformer" -> "TransformerModule"
      [] activeModule = "rlcircuit" -> "RLCircuitModule"
      [] activeModule = "rccircuit" -> "RCCircuitModule"
      [] activeModule = "resonance" -> "ResonanceModule"
      [] activeModule = "medium" -> "MediumPropertiesModule"
      [] activeModule = "skindepth" -> "SkinDepthModule"
      [] activeModule = "polarization" -> "PolarizationModule"
      [] activeModule = "fresnel" -> "FresnelModule"
      [] activeModule = "snell" -> "SnellModule"
      [] activeModule = "waveguide" -> "WaveguideModule"
      [] activeModule = "boundary" -> "BoundaryModule"
      [] activeModule = "power" -> "PowerModule"
      [] activeModule = "dipole" -> "DipoleModule"
      [] activeModule = "array" -> "ArrayFactorModule"
      [] activeModule = "link" -> "LinkBudgetModule"
      [] activeModule = "antennagain" -> "AntennaGainModule"
      [] activeModule = "aperture" -> "ApertureAntennaModule"
      [] activeModule = "radar" -> "RadarModule"
      [] activeModule = "lorentz" -> "LorentzForceModule"
      [] activeModule = "waveequation" -> "WaveEquationModule"
      [] activeModule = "energydensity" -> "EnergyDensityModule"
      [] activeModule = "maxwell" -> "MaxwellModule"
      [] activeModule = "spectrum" -> "SpectrumModule"
      [] activeModule = "microstrip" -> "MicrostripModule"
      [] activeModule = "divcurl" -> "DivCurlModule"
      [] activeModule = "magmaterials" -> "MagMaterialsModule"
      [] activeModule = "tlinetransient" -> "TLineTransientModule"
      [] activeModule = "waveguidemodes" -> "WaveguideModesModule"
      [] OTHER -> "Select a module"

\* ModuleSelector.tsx lines 15-36: one button for every module, grouped by
\* chapter, each calling onSelect with its id; the active one is highlighted
ModuleSelector(modules, active) ==
    [chapters |-> {modules[i].chapter : i \in DOMAIN modules},
     buttons |-> {modules[i].id : i \in DOMAIN modules},
     active |-> active]

\* App.tsx line 129
LoadingScreen == [loading |-> "Loading EM Toolkit WASM engine..."]

\* a view that renders every module, whether the engine is ready or not
AppRenderWithoutReadyCheck(ready, activeModule) ==
    [count |-> Len(MODULES),
     selector |-> ModuleSelector(MODULES, activeModule),
     main |-> renderModule(activeModule)]

\* what App returns, lines 129-205
AppRender(ready, activeModule) ==
    IF ~ready THEN LoadingScreen
    ELSE [count |-> Len(MODULES),
          selector |-> ModuleSelector(MODULES, activeModule),
          main |-> renderModule(activeModule)]

\* an initial module id that MODULES does not list
InitialActiveModuleUnlisted == "home"

\* useState('smith'), line 123
InitialActiveModule == "smith"

\* ensureInit, wasm.ts lines 5-10, up to the point where it returns its
\* promise: with initialized false it invokes init() and is suspended at the
\* await; with initialized true its promise is fulfilled at once
ensureInit(w, then) ==
    IF ~w.initialized
    THEN [w EXCEPT !.inits = @ + 1,
                   !.calls = Append(@, [promise |-> "pending", then |-> then])]
    ELSE [w EXCEPT !.calls = Append(@, [promise |-> "fulfilled", then |-> then])]

\* the rest of ensureInit after the awaited init() has succeeded, line 8
Resumed(w, k) ==
    [w EXCEPT !.initialized = TRUE, !.calls[k].promise = "fulfilled"]

\* a rejection after which the engine counts as initialized
RejectedMarksInitialized(w, k) ==
    [w EXCEPT !.initialized = TRUE, !.calls[k].promise = "rejected"]

\* the awaited init() has failed: the await throws, line 8 is not reached and
\* the promise of ensureInit is rejected
Rejected(w, k) ==
    [w EXCEPT !.calls[k].promise = "rejected"]

\* wasm.ts line 3, and App on its first render (lines 122-129) with the
\* effect of lines 125-127 still to run
AppInit ==
    /\ wasm = [initialized |-> FALSE, inits |-> 0, calls |-> << >>]
    /\ App = [mounted |-> TRUE, ready |-> FALSE,
              activeModule |-> InitialActiveModule, effect |-> "pending",
              view |-> AppRender(FALSE, InitialActiveModule)]
    /\ WaveguideModesModule = Unmounted
    /\ SnellModule = Unmounted
    /\ FresnelModule = Unmounted
    /\ MediumPropertiesModule = Unmounted
    /\ SkinDepthModule = Unmounted
    /\ LorentzForceModule = Unmounted
    /\ VectorOpsModule = Unmounted
    /\ PowerModule = Unmounted
    /\ BarcodeBrief = Unmounted
    /\ ResonanceModule = Unmounted
    /\ ImpedanceModule = Unmounted
    /\ SolarCellBrief = Unmounted
    /\ HelmholtzModule = Unmounted
    /\ TLineTransientModule = Unmounted
    /\ RCCircuitModule = Unmounted
    /\ MicrostripModule = Unmounted
    /\ ElectrostaticsModule = Unmounted

AppOthers == << WaveguideModesModule, SnellModule, FresnelModule, MediumPropertiesModule, SkinDepthModule, LorentzForceModule, VectorOpsModule, PowerModule, BarcodeBrief, ResonanceModule, ImpedanceModule, SolarCellBrief, HelmholtzModule, TLineTransientModule, RCCircuitModule,
                   MicrostripModule,
                   ElectrostaticsModule >>

\* the number of calls of ensureInit made from outside App
MaxCalls == 2

\* the effect of lines 125-127: ensureInit().then(() => setReady(true))
AppEffect ==
    /\ App.mounted
    /\ App.effect = "pending"
    /\ wasm' = ensureInit(wasm, "setReady")
    /\ App' = [App EXCEPT !.effect = "ran"]
    /\ UNCHANGED AppOthers

\* a call of the exported ensureInit by another importer of wasm.ts, which
\* registers no callback
EnsureInitCall ==
    /\ Cardinality({k \in DOMAIN wasm.calls : wasm.calls[k].then = "none"}) < MaxCalls
    /\ wasm' = ensureInit(wasm, "none")
    /\ UNCHANGED App
    /\ UNCHANGED AppOthers

\* the promise of the init() invoked by call k is fulfilled and call k runs
\* on from its await
InitFulfilled(k) ==
    /\ wasm.calls[k].promise = "pending"
    /\ wasm' = Resumed(wasm, k)
    /\ UNCHANGED App
    /\ UNCHANGED AppOthers

\* the promise of the init() invoked by call k is rejected
InitRejected(k) ==
    /\ wasm.calls[k].promise = "pending"
    /\ wasm' = Rejected(wasm, k)
    /\ UNCHANGED App
    /\ UNCHANGED AppOthers

\* the callback of line 126, run once the promise of call k is fulfilled:
\* setReady(true), after which App renders again
ThenSetReady(k) ==
    /\ wasm.calls[k].promise = "fulfilled"
    /\ wasm.calls[k].then = "setReady"
    /\ wasm' = [wasm EXCEPT !.calls[k].then = "ran"]
    /\ App' = [App EXCEPT !.ready = TRUE,
                          !.view = AppRender(TRUE, App.activeModule)]
    /\ UNCHANGED AppOthers

\* a click on the button of module id: onSelect is setActiveModule, line 201
AppOnSelect(id) ==
    /\ App.mounted
    /\ App.view # LoadingScreen
    /\ id \in App.view.selector.buttons
    /\ App' = [App EXCEPT !.activeModule = id,
                          !.view = AppRender(App.ready, id)]
    /\ UNCHANGED wasm
    /\ UNCHANGED AppOthers

AppNext ==
    \/ AppEffect
    \/ EnsureInitCall
    \/ \E k \in DOMAIN wasm.calls : InitFulfilled(k)
    \/ \E k \in DOMAIN wasm.calls : InitRejected(k)
    \/ \E k \in DOMAIN wasm.calls : ThenSetReady(k)
    \/ \E i \in DOMAIN MODULES : AppOnSelect(MODULES[i].id)

SpecApp == AppInit /\ [][AppNext]_vars

(* Claims about engine loading and navigation                              *)

\* C21: however many times ensureInit is called, overlapping calls included,
\* the engine's init() is invoked at most once.
C21_InitInvokedAtMostOnce ==
    wasm.inits <= 1

\* the promise returned to App by ensureInit has been fulfilled
AppEnsureInitResolved ==
    \E k \in DOMAIN wasm.calls :
        /\ wasm.calls[k].then \in {"setReady", "ran"}
        /\ wasm.calls[k].promise = "fulfilled"

\* C22: no module view is rendered, so no view calls the engine, before the
\* promise that ensureInit returned to App has resolved; until then App shows
\* only the loading screen.
C22_NoModuleBeforeEngineReady ==
    /\ (App.mounted /\ ~AppEnsureInitResolved) => App.view = LoadingScreen
    /\ (App.mounted /\ App.view # LoadingScreen) => wasm.initialized

C22_Witness ==
    /\ App.mounted
    /\ App.ready
    /\ App.view.main = "SmithChartModule"
    /\ AppEnsureInitResolved
    /\ wasm.initialized

\* the promise returned to App by ensureInit has been rejected
AppEnsureInitRejected ==
    \E k \in DOMAIN wasm.calls :
        /\ wasm.calls[k].then = "setReady"
        /\ wasm.calls[k].promise = "rejected"

\* C24: a rejection of init() leaves initialized and ready as they were, so
\* with no successful init() initialized is false and App, whose own call was
\* rejected, stays on the loading screen; and a call of ensureInit made while
\* initialized is false invokes init() again.
C24_RejectionKeepsLoadingAndRetries ==
    [][ /\ (\E k \in DOMAIN wasm.calls :
                wasm.calls[k].promise = "pending" /\ wasm'.calls[k].promise = "rejected")
           => (wasm'.initialized = wasm.initialized /\ App' = App)
        /\ (\A k \in DOMAIN wasm'.calls : wasm'.calls[k].promise # "fulfilled")
           => ~wasm'.initialized
        /\ AppEnsureInitRejected' => (~App'.ready /\ App'.view = LoadingScreen)
        /\ (~wasm.initialized /\ Len(wasm'.calls) = Len(wasm.calls) + 1)
           => wasm'.inits = wasm.inits + 1
      ]_vars

C24_Witness ==
    /\ Len(wasm.calls) = 2
    /\ wasm.calls[1] = [promise |-> "rejected", then |-> "setReady"]
    /\ wasm.calls[2] = [promise |-> "pending", then |-> "none"]
    /\ wasm.inits = 2
    /\ ~wasm.initialized
    /\ App.view = LoadingScreen

\* C27: the ids of MODULES are pairwise different, each has a case of its own
\* in renderModule, the initial id is listed, and whatever is selected App
\* never renders the default 'Select a module'.
C27_EveryModuleHasItsCase ==
    /\ Cardinality({MODULES[i].id : i \in DOMAIN MODULES}) = Len(MODULES)
    /\ \A i \in DOMAIN MODULES : renderModule(MODULES[i].id) # "Select a module"
    /\ Cardinality({renderModule(MODULES[i].id) : i \in DOMAIN MODULES}) = Len(MODULES)
    /\ \E i \in DOMAIN MODULES : MODULES[i].id = InitialActiveModule
    /\ App.mounted => \E i \in DOMAIN MODULES : MODULES[i].id = App.activeModule
    /\ (App.mounted /\ App.view # LoadingScreen) => App.view.main # "Select a module"

C27_Witness ==
    /\ App.mounted
    /\ App.ready
    /\ App.activeModule = "magmaterials"
    /\ App.view.main = "MagMaterialsModule"
    /\ App.view.selector.active = "magmaterials"


---------------------------------------------------------------------------
(* MicrostripModule (src/web/src/modules/MicrostripModule.tsx)             *)
(* w and h in tenths of a millimetre, epsilonR in hundredths, tanDelta in  *)
(* ten-thousandths, frequency in units of 100 MHz (the steps of the        *)
(* sliders and the digits of the presets).                                 *)
(*                                                                         *)
(* The results need Math.sqrt, Math.log and pi, so a number of this        *)
(* component is kept by what is known of it exactly: the record            *)
(* [lo, more] is the rational lo itself when more is FALSE and some finite *)
(* number above lo when more is TRUE.  All numbers here are zero or above, *)
(* or NaN or Infinity.  Whether a quotient is a number depends on which of *)
(* its terms are exactly zero, and zero is always kept exactly.  Each       *)
(* operation takes its operands' values once, as a set of one element.     *)

Exactly(r) == [lo |-> r, more |-> FALSE]
Above(r) == [lo |-> r, more |-> TRUE]
\* a finite number above zero: the constants 2.99792458e8, 5.8e7, Math.PI,
\* 4e-7 * Math.PI and Math.log(10), and the units 1e8, 1e-3, 1e3 and 1e6
Positive == Above(RZero)
IsZero(x) == IsFinite(x) /\ x.lo.n = 0 /\ ~x.more

\* x * y in JavaScript
NumTimes(x, y) ==
    CHOOSE product \in
        { IF a = NaN \/ b = NaN THEN NaN
          ELSE IF a = Infinity \/ b = Infinity
               THEN (IF IsZero(a) \/ IsZero(b) THEN NaN ELSE Infinity)
          ELSE IF IsZero(a) \/ IsZero(b) THEN Exactly(RZero)
          ELSE [lo |-> RMul(a.lo, b.lo), more |-> a.more \/ b.more]
          : a \in {x}, b \in {y} } : TRUE

\* x / y in JavaScript: 0 / 0 is NaN and any other number over 0 is Infinity
NumDivide(x, y) ==
    CHOOSE quotient \in
        { IF a = NaN \/ b = NaN THEN NaN
          ELSE IF a = Infinity THEN (IF b = Infinity THEN NaN ELSE Infinity)
          ELSE IF b = Infinity THEN Exactly(RZero)
          ELSE IF IsZero(b) THEN (IF IsZero(a) THEN NaN ELSE Infinity)
          ELSE IF IsZero(a) THEN Exactly(RZero)
          ELSE IF b.more THEN Positive
          ELSE [lo |-> RDiv(a.lo, b.lo), more |-> a.more]
          : a \in {x}, b \in {y} } : TRUE

\* x + y in JavaScript
NumPlus(x, y) ==
    CHOOSE sum \in
        { IF a = NaN \/ b = NaN THEN NaN
          ELSE IF a = Infinity \/ b = Infinity THEN Infinity
          ELSE [lo |-> RAdd(a.lo, b.lo), more |-> a.more \/ b.more]
          : a \in {x}, b \in {y} } : TRUE

\* x - r for a rational r not above x
NumMinus(x, r) ==
    CHOOSE difference \in
        { IF IsFinite(a) THEN [a EXCEPT !.lo = RSub(@, r)] ELSE a : a \in {x} } : TRUE

\* Math.sqrt(x): 0 and 1 are their own roots, the root of a number above 1
\* is above 1
NumSqrt(x) ==
    CHOOSE root \in
        { IF ~IsFinite(a) THEN a
          ELSE IF a = Exactly(RZero) \/ a = Exactly(ROne) THEN a
          ELSE IF RLe(ROne, a.lo) THEN Above(ROne)
          ELSE Positive
          : a \in {x} } : TRUE

\* Math.log(x) of a number x >= 1, the only arguments the component has:
\* 8 / wh + wh / 4 >= 8.25 for wh <= 1, wh + 1.444 > 2.444 for wh > 1, and 10
NumLog(x) ==
    CHOOSE logarithm \in
        { IF ~IsFinite(a) THEN a
          ELSE IF a = Exactly(ROne) THEN Exactly(RZero)
          ELSE Positive
          : a \in {x} } : TRUE

\* the results useMemo, lines 13-61
MicrostripResults(in) ==
    LET two == Exactly(Rat(2, 1))
        w == Rat(in.w, 10)
        wh == Rat(in.w, in.h)
        epsilonR == Rat(in.epsilonR, 100)
        tanDelta == Exactly(Rat(in.tanDelta, 10000))
        frequency == NumTimes(Exactly(Rat(in.frequency, 1)), Positive)
        c0 == Positive
        pi == Positive
        half == Exactly(RDiv(RAdd(epsilonR, ROne), Rat(2, 1)))
        halfLess == Exactly(RDiv(RSub(epsilonR, ROne), Rat(2, 1)))
        root == NumSqrt(Exactly(RAdd(ROne, RDiv(Rat(12, 1), wh))))
        epsEff ==
            IF RLe(wh, ROne)
            THEN NumPlus(half,
                     NumTimes(halfLess,
                         NumPlus(NumDivide(Exactly(ROne), root),
                                 Exactly(RMul(Rat(4, 100),
                                              RMul(RSub(ROne, wh), RSub(ROne, wh)))))))
            ELSE NumPlus(half, NumDivide(halfLess, root))
        z0 ==
            IF RLe(wh, ROne)
            THEN NumTimes(NumDivide(Exactly(Rat(60, 1)), NumSqrt(epsEff)),
                          NumLog(Exactly(RAdd(RDiv(Rat(8, 1), wh), RDiv(wh, Rat(4, 1))))))
            ELSE NumDivide(
                     NumTimes(Exactly(Rat(120, 1)), pi),
                     NumTimes(NumSqrt(epsEff),
                         NumPlus(Exactly(RAdd(wh, Rat(1393, 1000))),
                                 NumTimes(Exactly(Rat(667, 1000)),
                                          NumLog(Exactly(RAdd(wh, Rat(1444, 1000))))))))
        vPhase == NumDivide(c0, NumSqrt(epsEff))
        lambda == NumDivide(vPhase, frequency)
        lambdaG == lambda
        beta == NumDivide(NumTimes(two, pi), lambdaG)
        sigma == Positive
        mu0 == NumTimes(Positive, pi)
        skinDepth ==
            NumDivide(Exactly(ROne),
                      NumSqrt(NumTimes(NumTimes(NumTimes(pi, frequency), mu0), sigma)))
        rs == NumDivide(Exactly(ROne), NumTimes(sigma, skinDepth))
        alphaCond == NumDivide(rs, NumTimes(NumTimes(z0, Exactly(w)), Positive))
        k0 == NumDivide(NumTimes(NumTimes(two, pi), frequency), c0)
        alphaDiel ==
            NumDivide(
                NumTimes(NumTimes(NumTimes(k0, Exactly(epsilonR)),
                                  NumMinus(epsEff, ROne)),
                         tanDelta),
                NumTimes(NumTimes(two, NumSqrt(epsEff)),
                         Exactly(RSub(epsilonR, ROne))))
        alphaTotal == NumPlus(alphaCond, alphaDiel)
        lossDbPerCm ==
            NumDivide(
                NumDivide(NumTimes(NumTimes(alphaTotal, Exactly(Rat(100, 1))),
                                   Exactly(Rat(20, 1))),
                          NumLog(Exactly(Rat(10, 1)))),
                Exactly(Rat(100, 1)))
        patchLength == NumTimes(NumDivide(lambda, two), Positive)
    IN  [z0 |-> z0, epsEff |-> epsEff, vPhase |-> vPhase, lambda |-> lambda,
         beta |-> beta, skinDepth |-> skinDepth, alphaCond |-> alphaCond,
         alphaDiel |-> alphaDiel, alphaTotal |-> alphaTotal,
         lossDbPerCm |-> lossDbPerCm, patchLength |-> patchLength,
         wh |-> Exactly(wh)]

\* the presets of the select, lines 63-68
substrates ==
    [fr4 |-> [er |-> 440, tanD |-> 200],
     rogers4003 |-> [er |-> 355, tanD |-> 27],
     rogers5880 |-> [er |-> 220, tanD |-> 9],
     alumina |-> [er |-> 980, tanD |-> 1]]

\* the result cards, lines 97-134
MicrostripView(results) ==
    Rendered(
        [z0 |-> ToFixed(results.z0),
         epsEff |-> ToFixed(results.epsEff),
         wh |-> ToFixed(results.wh),
         vPhase |-> ToFixed(NumDivide(results.vPhase, Positive)),
         lambda |-> ToFixed(NumTimes(results.lambda, Positive)),
         beta |-> ToFixed(results.beta),
         loss |-> ToFixed(results.lossDbPerCm),
         skinDepth |-> ToFixed(NumTimes(results.skinDepth, Positive)),
         patchLength |-> ToFixed(results.patchLength)])

MicrostripRender(in) ==
    CHOOSE component \in
        { [mounted |-> TRUE, in |-> in, results |-> results,
           view |-> MicrostripView(results)]
          : results \in {MicrostripResults(in)} } : TRUE

\* useState defaults: 3.0 mm, 1.6 mm, 4.4, 2.4 GHz, 0.02
MicrostripInit ==
    /\ MicrostripModule = MicrostripRender([w |-> 30, h |-> 16, epsilonR |-> 440,
                                            frequency |-> 24, tanDelta |-> 200])
    /\ WaveguideModesModule = Unmounted
    /\ SnellModule = Unmounted
    /\ FresnelModule = Unmounted
    /\ MediumPropertiesModule = Unmounted
    /\ SkinDepthModule = Unmounted
    /\ LorentzForceModule = Unmounted
    /\ VectorOpsModule = Unmounted
    /\ PowerModule = Unmounted
    /\ BarcodeBrief = Unmounted
    /\ ResonanceModule = Unmounted
    /\ ImpedanceModule = Unmounted
    /\ SolarCellBrief = Unmounted
    /\ HelmholtzModule = Unmounted
    /\ TLineTransientModule = Unmounted
    /\ RCCircuitModule = Unmounted
    /\ wasm = Unmounted
    /\ App = Unmounted
    /\ ElectrostaticsModule = Unmounted

MicrostripOthers == << WaveguideModesModule, SnellModule, FresnelModule, MediumPropertiesModule, SkinDepthModule, LorentzForceModule, VectorOpsModule, PowerModule, BarcodeBrief, ResonanceModule, ImpedanceModule, SolarCellBrief, HelmholtzModule, TLineTransientModule, RCCircuitModule, wasm, App, ElectrostaticsModule >>

\* the values of the sliders tried: each slider's minimum and maximum and,
\* for epsilonR, the step after the minimum
MicrostripControls ==
    [w |-> {1, 16, 200}, h |-> {1, 16, 50}, epsilonR |-> {100, 110, 1500},
     tanDelta |-> {1, 500}, frequency |-> {1, 300}]

\* onChange of one slider: setW, setH, setEpsilonR, setTanDelta, setFrequency
MicrostripOnChange(field, v) ==
    /\ MicrostripModule.mounted
    /\ MicrostripModule' =
           MicrostripRender([MicrostripModule.in EXCEPT ![field] = v])
    /\ UNCHANGED MicrostripOthers

\* onChange of the preset select, lines 77-80
MicrostripSelectPreset(key) ==
    /\ MicrostripModule.mounted
    /\ LET s == substrates[key]
       IN  MicrostripModule' =
               MicrostripRender([MicrostripModule.in EXCEPT !.epsilonR = s.er,
                                                            !.tanDelta = s.tanD])
    /\ UNCHANGED MicrostripOthers

MicrostripNext ==
    \/ \E field \in DOMAIN MicrostripControls :
          \E v \in MicrostripControls[field] : MicrostripOnChange(field, v)
    \/ \E key \in DOMAIN substrates : MicrostripSelectPreset(key)

SpecMicrostrip == MicrostripInit /\ [][MicrostripNext]_vars

(* Claims about the microstrip calculator                                  *)

\* C25: for every substrate setting the sliders give, epsilonR = 1 included,
\* the dielectric loss, the total loss and the loss per centimetre are
\* numbers, never NaN.
C25_MicrostripLossesAreNumbers ==
    MicrostripModule.mounted =>
        /\ MicrostripModule.results.alphaDiel # NaN
        /\ MicrostripModule.results.alphaTotal # NaN
        /\ MicrostripModule.results.lossDbPerCm # NaN


---------------------------------------------------------------------------
(* ElectrostaticsModule (src/web/src/modules/PhaseComparisonModule.tsx,    *)
(* lines 63-149)                                                           *)
(* x and y in tenths of a metre, q in halves of a nanocoulomb (the steps   *)
(* of the three inputs of a charge).  A list index i is the index of the   *)
(* source, counted from 0; element i of the list is charges[i + 1] here.   *)
(* The engine calls electric_field_2d and field_lines are kept as the      *)
(* calls made, with their arguments; their results are not modelled.       *)

\* addCharge, lines 75-77: [...c, { x: 0, y: 0.5, q: 1e-9 }]
addCharge(charges) ==
    charges \o << [x |-> 0, y |-> 5, q |-> 2] >>

\* a removal that drops the last charge whatever the index
removeChargeAtEnd(charges, i) ==
    SubSeq(charges, 1, Len(charges) - 1)

\* removeCharge, lines 79-81: c.filter((_, j) => j !== i)
removeCharge(charges, i) ==
    LET kept == {j \in 0..(Len(charges) - 1) : j # i}
        \* the k-th index kept, in the order of the list
        nth(k) == CHOOSE j \in kept : Cardinality({m \in kept : m < j}) = k - 1
    IN  [k \in 1..Cardinality(kept) |-> charges[nth(k) + 1]]

\* updateCharge, lines 83-85: c.map((ch, j) => j === i ? { ...ch, [key]: val } : ch)
updateCharge(charges, i, key, val) ==
    [k \in DOMAIN charges |->
        IF k - 1 = i THEN [charges[k] EXCEPT ![key] = val] ELSE charges[k]]

\* charges.findIndex(c => c.q > 0): -1 when no charge is positive
FindPositive(charges) ==
    LET positive == {j \in 0..(Len(charges) - 1) : charges[j + 1].q > 0}
    IN  IF positive = {} THEN -1 ELSE CHOOSE j \in positive : \A m \in positive : j <= m

\* The component function, lines 87-148: the JSON of the charges, the two
\* engine calls, one row of inputs and one marker for each charge.
ElectrostaticsRender(charges) ==
    LET chargesJson == [k \in DOMAIN charges |->
                           << charges[k].x, charges[k].y, 0, charges[k].q >>]
        posIdx == FindPositive(charges)
    IN  [mounted |-> TRUE, charges |-> charges,
         field |-> [call |-> "electric_field_2d", chargesJson |-> chargesJson],
         fieldLines |-> IF posIdx < 0 THEN null
                        ELSE [call |-> "field_lines", chargesJson |-> chargesJson,
                              posIdx |-> posIdx],
         view |-> [rows |-> [k \in DOMAIN charges |->
                               [x |-> charges[k].x, y |-> charges[k].y,
                                q |-> charges[k].q, remove |-> k - 1]],
                   markers |-> [k \in DOMAIN charges |->
                                  [x |-> charges[k].x, y |-> charges[k].y,
                                   text |-> IF charges[k].q > 0 THEN "+" ELSE "-"]]]]

\* useState default, lines 70-73: +1 nC at (-0.5, 0) and -1 nC at (0.5, 0)
ElectrostaticsInit ==
    /\ ElectrostaticsModule =
           ElectrostaticsRender(<< [x |-> -5, y |-> 0, q |-> 2],
                                   [x |-> 5, y |-> 0, q |-> -2] >>)
    /\ WaveguideModesModule = Unmounted
    /\ SnellModule = Unmounted
    /\ FresnelModule = Unmounted
    /\ MediumPropertiesModule = Unmounted
    /\ SkinDepthModule = Unmounted
    /\ LorentzForceModule = Unmounted
    /\ VectorOpsModule = Unmounted
    /\ PowerModule = Unmounted
    /\ BarcodeBrief = Unmounted
    /\ ResonanceModule = Unmounted
    /\ ImpedanceModule = Unmounted
    /\ SolarCellBrief = Unmounted
    /\ HelmholtzModule = Unmounted
    /\ TLineTransientModule = Unmounted
    /\ RCCircuitModule = Unmounted
    /\ wasm = Unmounted
    /\ App = Unmounted
    /\ MicrostripModule = Unmounted

ElectrostaticsOthers == << WaveguideModesModule, SnellModule, FresnelModule, MediumPropertiesModule, SkinDepthModule, LorentzForceModule, VectorOpsModule, PowerModule, BarcodeBrief, ResonanceModule, ImpedanceModule, SolarCellBrief, HelmholtzModule, TLineTransientModule, RCCircuitModule, wasm, App, MicrostripModule >>

\* the longest list of charges tried
MaxCharges == 3

\* the values typed into the inputs of a charge
ElectrostaticsControls ==
    [x |-> {-5, 5}, y |-> {0, 5}, q |-> {-2, 2}]

\* a click on '+ Add Charge'
AddCharge ==
    /\ ElectrostaticsModule.mounted
    /\ Len(ElectrostaticsModule.charges) < MaxCharges
    /\ ElectrostaticsModule' =
           ElectrostaticsRender(addCharge(ElectrostaticsModule.charges))
    /\ UNCHANGED ElectrostaticsOthers

\* a click on the remove button of row i
RemoveCharge(i) ==
    /\ ElectrostaticsModule.mounted
    /\ i \in 0..(Len(ElectrostaticsModule.charges) - 1)
    /\ ElectrostaticsModule' =
           ElectrostaticsRender(removeCharge(ElectrostaticsModule.charges, i))
    /\ UNCHANGED ElectrostaticsOthers

\* onChange of the input key of row i
UpdateCharge(i, key, val) ==
    /\ ElectrostaticsModule.mounted
    /\ i \in 0..(Len(ElectrostaticsModule.charges) - 1)
    /\ ElectrostaticsModule' =
           ElectrostaticsRender(updateCharge(ElectrostaticsModule.charges, i, key, val))
    /\ UNCHANGED ElectrostaticsOthers

ElectrostaticsNext ==
    \/ AddCharge
    \/ \E i \in 0..(MaxCharges - 1) : RemoveCharge(i)
    \/ \E i \in 0..(MaxCharges - 1) :
          \E key \in DOMAIN ElectrostaticsControls :
             \E val \in ElectrostaticsControls[key] : UpdateCharge(i, key, val)

SpecElectrostatics == ElectrostaticsInit /\ [][ElectrostaticsNext]_vars

(* Claims about the list of charges                                        *)

\* C26: each operation on the list changes only its target.  addCharge
\* appends one charge (x = 0, y = 0.5, q = 1 nC) and keeps the charges before
\* it; removeCharge(i) takes out the charge at index i and keeps the others
\* and their order; updateCharge(i, key, val) sets field key of the charge at
\* index i and nothing else.
C26_ChargeOperationsChangeOnlyTheirTarget ==
    ElectrostaticsModule.mounted =>
        LET old == ElectrostaticsModule.charges
            n == Len(old)
        IN  /\ LET new == addCharge(old)
               IN  /\ Len(new) = n + 1
                   /\ \A k \in 1..n : new[k] = old[k]
                   /\ new[n + 1] = [x |-> 0, y |-> 5, q |-> 2]
            /\ \A i \in 0..(n - 1) :
                   LET new == removeCharge(old, i)
                   IN  /\ Len(new) = n - 1
                       /\ \A k \in 1..i : new[k] = old[k]
                       /\ \A k \in (i + 1)..(n - 1) : new[k] = old[k + 1]
            /\ \A i \in 0..(n - 1) :
                   \A key \in DOMAIN ElectrostaticsControls :
                       \A val \in ElectrostaticsControls[key] :
                           LET new == updateCharge(old, i, key, val)
                           IN  /\ Len(new) = n
                               /\ \A k \in 1..n : k # i + 1 => new[k] = old[k]
                               /\ new[i + 1][key] = val
                               /\ \A other \in DOMAIN old[i + 1] \ {key} :
                                      new[i + 1][other] = old[i + 1][other]

\* The list after a charge was added, the second moved and the first
\* removed: the added charge is now second, behind the moved one.
C26_Witness ==
    /\ ElectrostaticsModule.mounted
    /\ ElectrostaticsModule.charges =
           << [x |-> 5, y |-> 5, q |-> -2], [x |-> 0, y |-> 5, q |-> 2] >>
    /\ ElectrostaticsModule.view.rows[2].remove = 1

=============================================================================
